---- MODULE Spec2Model ----
(***************************************************************************)
(* State-machine model of the mind-map editor in src/src/App.tsx.          *)
(*                                                                         *)
(* The editor is one React function component.  Its state is the useState  *)
(* cells (nodes, edges, selection, camera, clipboard, linking, marquee,    *)
(* menu) and the useRef cells (history stacks, drag bookkeeping, typing    *)
(* flag, navigation memory).  Every event handler runs to completion       *)
(* against the values of the render that created it:                       *)
(*   - pointer, wheel and menu handlers are re-created on every render,    *)
(*     so they read the live state;                                        *)
(*   - the keydown handler is registered by an effect whose dependency     *)
(*     list is [selectedId, selectedIds, selectedEdgeIds, editingId,       *)
(*     clipboard]; it reads nodes, edges, pan and scale as they were at    *)
(*     the last render in which one of these dependencies changed.  The    *)
(*     variable kb holds that captured part of the closure.                *)
(* Functional state updates (setX(prev => ...)) act on the live value.     *)
(*                                                                         *)
(* Conventions: world and screen coordinates are integer pixels; Null (0)  *)
(* stands for null/undefined ids (node ids are positive); a label is a     *)
(* sequence of one-character strings; a JS Set is a duplicate-free         *)
(* sequence in insertion order where the order is read (selectedIds) and   *)
(* a set where it is not (selectedEdgeIds).                                *)
(*                                                                         *)
(* Abstractions: positions are rounded to whole pixels; the zoom factor    *)
(* takes the integer values 1..3 of the clamp range; touch pinch, the      *)
(* help overlay and the text of the rename input are left out, since no    *)
(* handler modelled here reads them.                                       *)
(***************************************************************************)
EXTENDS Integers, Sequences, FiniteSets, TLC

(***************************************************************************)
(* Program constants (App.tsx 42-46).                                      *)
(***************************************************************************)
BASE_W == 120
BASE_H == 64
DRAG_THRESHOLD == 16
CHILD_RADIUS == 160
Null == 0

(* cos and sin of k * GOLDEN_ANGLE for k = 0, 1, 2, ..., times 10000,       *)
(* entry k+1 of the tuple.  GOLDEN_ANGLE = pi * (3 - sqrt 5).               *)
cosGolden ==
  <<
    10000, -7374, 874, 6084, -9847, 8438, -2596, -4609, 9393, -9243, 4238, 2993,
    -8652, 9767, -5751, -1285, 7646, -9991, 7088, -462, -6407, 9911, -8209, 2195,
    4972, -9527, 9078, -3861, -3385, 8852, -9670, 5408, 1694, -7906, 9966, -6791,
    49, 6719, -9957, 7966, -1790, -5326, 9644, -8897, 3476, 3770, -9037, 9556,
    -5056, -2100, 8152, -9923, 6482, 364, -7019, 9987, -7709, 1382, 5671, -9745,
    8701, -3086, -4150, 9206, -9426, 4695, 2502, -8385, 9864, -6162, -777, 7307,
    -10000, 7439, -971, -6007, 9830, -8490, 2690, 4522, -9359, 9280, -4327, -2900,
    8603, -9787, 5831, 1188, -7583, 9995, -7157, 559, 6332, -9897, 8264, -2290,
    -4887, 9497, -9118, 3950, 3293, -8806, 9694, -5490, -1598, 7846, -9973, 6862,
    -146, -6646, 9948, -8024
  >>
sinGolden ==
  <<
    0, 6755, -9962, 7936, -1742, -5367, 9657, -8874, 3430, 3816, -9057, 9542,
    -5014, -2147, 8181, -9917, 6444, 413, -7054, 9989, -7678, 1333, 5711, -9756,
    8676, -3039, -4194, 9225, -9410, 4652, 2549, -8411, 9856, -6123, -826, 7341,
    -10000, 7407, -923, -6046, 9839, -8464, 2643, 4566, -9376, 9262, -4283, -2946,
    8628, -9777, 5791, 1237, -7615, 9993, -7123, 511, 6370, -9904, 8236, -2242,
    -4929, 9512, -9098, 3906, 3339, -8829, 9682, -5449, -1646, 7876, -9970, 6827,
    -98, -6683, 9953, -7995, 1838, 5285, -9631, 8919, -3522, -3725, 9016, -9570,
    5098, 2052, -8124, 9929, -6519, -316, 6984, -9984, 7740, -1430, -5631, 9734,
    -8725, 3132, 4105, -9187, 9442, -4738, -2454, 8358, -9872, 6200, 728, -7274,
    9999, -7472, 1020, 5968
  >>

(***************************************************************************)
(* Arithmetic helpers.                                                     *)
(***************************************************************************)
Max(a, b) == IF a >= b THEN a ELSE b
Min(a, b) == IF a <= b THEN a ELSE b
Abs(a) == IF a >= 0 THEN a ELSE 0 - a
clamp(v, a, b) == Max(a, Min(b, v))
CeilDiv(a, b) == 0 - ((0 - a) \div b)
RoundDiv(a, b) == (2 * a + b) \div (2 * b)

RECURSIVE IsqrtBetween(_, _, _)
IsqrtBetween(n, lo, hi) ==
  IF lo >= hi THEN lo
  ELSE LET mid == (lo + hi + 1) \div 2
       IN  IF mid <= n \div mid THEN IsqrtBetween(n, mid, hi)
           ELSE IsqrtBetween(n, lo, mid - 1)
Isqrt(n) == IF n <= 0 THEN 0 ELSE IsqrtBetween(n, 1, Min(n, 46340))

SeqToSet(s) == {s[i] : i \in 1..Len(s)}
RECURSIVE FilterSeq(_, _)
FilterSeq(s, keep) ==
  IF s = <<>> THEN <<>>
  ELSE IF Head(s) \in keep THEN <<Head(s)>> \o FilterSeq(Tail(s), keep)
       ELSE FilterSeq(Tail(s), keep)
Front(s) == SubSeq(s, 1, Len(s) - 1)
Last(s) == s[Len(s)]

(***************************************************************************)
(* Label layout (layoutLabel, resizeNodeForLabel).  Text widths are        *)
(* length * fontSize * 0.6; the comparisons and ceilings below are the     *)
(* same computations in fifths of a pixel.                                 *)
(***************************************************************************)
RECURSIVE WordsFrom(_, _, _, _)
WordsFrom(label, i, cur, acc) ==
  IF i > Len(label) THEN (IF cur > 0 THEN Append(acc, cur) ELSE acc)
  ELSE IF label[i] = " "
       THEN WordsFrom(label, i + 1, 0, IF cur > 0 THEN Append(acc, cur) ELSE acc)
       ELSE WordsFrom(label, i + 1, cur + 1, acc)
(* lengths of label.split(/\s+/).filter(Boolean) *)
wordLengths(label) == WordsFrom(label, 1, 0, <<>>)

RECURSIVE SumSeq(_)
SumSeq(s) == IF s = <<>> THEN 0 ELSE Head(s) + SumSeq(Tail(s))
RECURSIVE MaxSeq(_)
MaxSeq(s) == IF s = <<>> THEN 0 ELSE Max(Head(s), MaxSeq(Tail(s)))

(* fits: approxTextWidth(test, baseFont) <= width - paddingX * 2 *)
fitsLine(chars, baseFont, width) == 3 * chars * baseFont <= 5 * (width - 32)

RECURSIVE packWords(_, _, _, _, _, _)
packWords(ws, i, cur, lines, baseFont, width) ==
  IF i > Len(ws) THEN (IF cur > 0 THEN Append(lines, cur) ELSE lines)
  ELSE LET w == ws[i]
           test == IF cur > 0 THEN cur + 1 + w ELSE w
       IN  IF fitsLine(test, baseFont, width)
           THEN packWords(ws, i + 1, test, lines, baseFont, width)
           ELSE packWords(ws, i + 1, w,
                          IF cur > 0 THEN Append(lines, cur) ELSE lines,
                          baseFont, width)

(* One pass of rebuild(): the line lengths for the given width. *)
rebuild(label, baseFont, width) ==
  LET words == wordLengths(label)
  IN  packWords(IF Len(words) > 0 THEN words ELSE <<Len(label)>>,
                1, 0, <<>>, baseFont, width)

(* label.replace(/\s+/g, " ").trim().length || 1 *)
normalizedLength(label) ==
  LET words == wordLengths(label)
      n == IF Len(words) = 0 THEN 0 ELSE SumSeq(words) + Len(words) - 1
  IN  IF n = 0 THEN 1 ELSE n

RECURSIVE layoutLoop(_, _, _, _)
layoutLoop(label, baseFont, width, i) ==
  LET lines == rebuild(label, baseFont, width)
  IN  IF Len(lines) > 3
      THEN LET target == CeilDiv(normalizedLength(label), 3)
               wider == Max(width, CeilDiv(3 * target * baseFont, 5) + 32)
           IN  IF i < 5 THEN layoutLoop(label, baseFont, wider, i + 1)
               ELSE [lines |-> lines, width |-> wider]
      ELSE [lines |-> lines, width |-> width]

layoutLabel(label, baseFont, minW) ==
  LET lineHeight == (115 * baseFont + 50) \div 100
      r == layoutLoop(label, baseFont, Max(minW, BASE_W), 0)
      textW5 == 3 * MaxSeq(r.lines) * baseFont
      width == Max(r.width, CeilDiv(textW5, 5) + 32)
      height == Max(BASE_H, Len(r.lines) * lineHeight + 24)
  IN  [lines |-> IF Len(r.lines) > 0 THEN r.lines ELSE <<0>>,
       width |-> width, height |-> height,
       lineHeight |-> lineHeight, fontSize |-> baseFont]

resizeNodeForLabel_noMinimum(n) ==
  LET baseFont == clamp((35 * n.h + 50) \div 100, 12, 20)
      L == layoutLabel(n.label, baseFont, BASE_W)
  IN  [n EXCEPT !.w = CeilDiv(3 * MaxSeq(L.lines) * baseFont, 5) + 32,
                !.h = Len(L.lines) * L.lineHeight + 24]
resizeNodeForLabel(n) ==
  LET baseFont == clamp((35 * n.h + 50) \div 100, 12, 20)
      L == layoutLabel(n.label, baseFont, BASE_W)
  IN  [n EXCEPT !.w = L.width, !.h = L.height]

(***************************************************************************)
(* Geometry.                                                               *)
(***************************************************************************)
Pt(x, y) == [x |-> x, y |-> y]
dist2(ax, ay, bx, by) == (ax - bx) * (ax - bx) + (ay - by) * (ay - by)

(* 2 * rectRadius(n): rectRadius is Math.max(n.w, n.h) / 2 *)
rectRadiusTimes2(n) == Max(n.w, n.h)

(* distPointToSeg(px, py, x1, y1, x2, y2) < limit, in exact integer        *)
(* arithmetic: the closest point is an end point when the projection t     *)
(* clamps to 0 or 1, else the foot of the perpendicular.                   *)
distPointToSegBelow(px, py, x1, y1, x2, y2, limit) ==
  LET vx == x2 - x1
      vy == y2 - y1
      wx == px - x1
      wy == py - y1
      len2 == vx * vx + vy * vy
      dot == wx * vx + wy * vy
  IN  IF len2 = 0 \/ dot <= 0 THEN wx * wx + wy * wy < limit * limit
      ELSE IF dot >= len2 THEN dist2(px, py, x2, y2) < limit * limit
      ELSE LET cross == Abs(wx * vy - wy * vx)
               s == Isqrt(len2)
               e == cross - limit * s
           IN  IF e < 0 THEN TRUE
               ELSE IF e >= limit THEN FALSE
               ELSE 2 * limit * s * e + e * e < limit * limit * (len2 - s * s)

(* index of the first element of seq whose id is id, 0 when there is none  *)
(* (Array.prototype.find / findIndex by id)                                *)
indexOfId(seq, id) ==
  IF \E i \in 1..Len(seq) : seq[i].id = id
  THEN CHOOSE i \in 1..Len(seq) :
         seq[i].id = id /\ \A j \in 1..(i - 1) : seq[j].id # id
  ELSE 0
hasId(seq, id) == \E i \in 1..Len(seq) : seq[i].id = id
findById(seq, id) == seq[indexOfId(seq, id)]
idsOf(seq) == {seq[i].id : i \in 1..Len(seq)}

isPositionFree_edgesOnly(ns, es, x, y, parentId) ==
  \A i \in 1..Len(es) :
    \/ (parentId # Null /\ (es[i].source = parentId \/ es[i].target = parentId))
    \/ ~hasId(ns, es[i].source)
    \/ ~hasId(ns, es[i].target)
    \/ LET s == findById(ns, es[i].source)
           t == findById(ns, es[i].target)
       IN  ~distPointToSegBelow(x, y, s.x, s.y, t.x, t.y,
                                Max(BASE_W, BASE_H) \div 2 + 6)
isPositionFree(ns, es, x, y, parentId) ==
  /\ \A i \in 1..Len(ns) :
       \/ ns[i].id = parentId
       \/ ~(4 * dist2(ns[i].x, ns[i].y, x, y)
              < (rectRadiusTimes2(ns[i]) + Max(BASE_W, BASE_H) + 16)
                * (rectRadiusTimes2(ns[i]) + Max(BASE_W, BASE_H) + 16))
  /\ \A i \in 1..Len(es) :
       \/ (parentId # Null /\ (es[i].source = parentId \/ es[i].target = parentId))
       \/ ~hasId(ns, es[i].source)
       \/ ~hasId(ns, es[i].target)
       \/ LET s == findById(ns, es[i].source)
              t == findById(ns, es[i].target)
          IN  ~distPointToSegBelow(x, y, s.x, s.y, t.x, t.y,
                                   Max(BASE_W, BASE_H) \div 2 + 6)

isPointInNode(n, x, y) == 2 * Abs(x - n.x) <= n.w /\ 2 * Abs(y - n.y) <= n.h

(* findNodeAt(x, y, excludeId): id of the first node containing the point *)
findNodeAt(ns, x, y, excludeId) ==
  LET hit(i) == ~(excludeId # Null /\ ns[i].id = excludeId)
                /\ isPointInNode(ns[i], x, y)
  IN  IF \E i \in 1..Len(ns) : hit(i)
      THEN ns[CHOOSE i \in 1..Len(ns) : hit(i) /\ \A j \in 1..(i - 1) : ~hit(j)].id
      ELSE Null

getParentId(es, childId) ==
  IF \E i \in 1..Len(es) : es[i].target = childId
  THEN es[CHOOSE i \in 1..Len(es) :
            es[i].target = childId /\ \A j \in 1..(i - 1) : es[j].target # childId].source
  ELSE Null

(* getChildrenOf(parentId).length: one entry per edge leaving parentId *)
childCount(es, parentId) == Cardinality({i \in 1..Len(es) : es[i].source = parentId})

maxId(ns) == IF Len(ns) = 0 THEN 0
             ELSE CHOOSE m \in idsOf(ns) : \A k \in idsOf(ns) : k <= m
(* nodes.length ? Math.max(...ids) + 1 : 1 *)
nextNodeId(ns) == IF Len(ns) = 0 THEN 1 ELSE maxId(ns) + 1

(***************************************************************************)
(* State.                                                                  *)
(***************************************************************************)
VARIABLES
  nodes,               \* useState: MindNode[]
  edges,               \* useState: Link[]
  selectedId,          \* useState: number | null
  selectedIds,         \* useState: Set<number>, in insertion order
  selectedEdgeIds,     \* useState: Set<number>
  clipboard,           \* useState: <<>> (null) or <<[nodes, edges]>>
  pan,                 \* useState: {x, y}
  scale,               \* useState: number
  kb,                  \* nodes, edges, pan, scale captured by the keydown effect
  undoStack,           \* useRef: Snapshot[]
  redoStack,           \* useRef: Snapshot[]
  linking,             \* useState: {phase, sourceId, x, y, startX, startY}
  marquee,             \* useState: {active, x1, y1, x2, y2}
  draggingNodeId,      \* useRef
  dragOffset,          \* useRef
  somethingMoved,      \* useRef
  groupDragging,       \* useRef
  groupStart,          \* useRef
  groupStartPositions, \* useRef
  panning,             \* useRef
  panStart,            \* useRef (client coordinates)
  panAtStart,          \* useRef
  editingId,           \* useState
  freshTyping,         \* useRef
  shiftTabPath,        \* useRef: <<>> (null) or the path [root, ..., leaf]
  shiftTabIndex,       \* useRef
  prevSelectedId,      \* useRef
  contextMenu,         \* useState: {open, kind, targetNodeId, targetEdgeId, wx, wy}
  timers,              \* pending setTimeout(..., 0) callbacks, oldest first
  clock,               \* Date.now(), strictly increasing from event to event
  pointerDown,         \* environment: the pointer's button is held
  crashed,             \* an exception while rendering unmounted the component tree
  imported,            \* history: a file has been imported
  rt,                  \* history: edit / undo / redo round-trip bookkeeping
  last,                \* history: the handler that ran last and what it did
  drag,                \* history: the drag gesture in progress or just finished
  steps,               \* history: number of events handled
  stepLimit,           \* bound: events handled in one behaviour
  probe                \* a call of a pure function: its arguments and its result

vars ==
  <<nodes, edges, selectedId, selectedIds, selectedEdgeIds, clipboard, pan, scale,
    kb, undoStack, redoStack, linking, marquee, draggingNodeId, dragOffset,
    somethingMoved, groupDragging, groupStart, groupStartPositions, panning,
    panStart, panAtStart, editingId, freshTyping, shiftTabPath, shiftTabIndex,
    prevSelectedId, contextMenu, timers, clock, pointerDown, crashed, imported,
    rt, last, drag, steps, stepLimit, probe>>

(* everything but probe *)
editorVars ==
  <<nodes, edges, selectedId, selectedIds, selectedEdgeIds, clipboard, pan, scale,
    kb, undoStack, redoStack, linking, marquee, draggingNodeId, dragOffset,
    somethingMoved, groupDragging, groupStart, groupStartPositions, panning,
    panStart, panAtStart, editingId, freshTyping, shiftTabPath, shiftTabIndex,
    prevSelectedId, contextMenu, timers, clock, pointerDown, crashed, imported,
    rt, last, drag, steps, stepLimit>>

(* svg.getBoundingClientRect() of the mounted canvas *)
ViewRect == [left |-> 0, top |-> 0, width |-> 800, height |-> 600]

(* The program state as one record; the handlers below map a closure c     *)
(* (what the handler's render saw) and a state s (what it has written so   *)
(* far) to the state after the handler.  dirty: a dependency of the        *)
(* keydown effect was set; pushed: pushHistory() calls; kind, ret, ids,    *)
(* eids: what the handler did (ids: the argument of removeNodes, eids: the *)
(* argument of removeEdges; doc: the file given to the import; arg, mod:   *)
(* the node or edge under the pointer and the modifier key held; at,       *)
(* probes: the argument of addStandalone and the isPositionFree calls of a *)
(* placement), for the history variables.                                  *)
State ==
  [nodes |-> nodes, edges |-> edges, selectedId |-> selectedId,
   selectedIds |-> selectedIds, selectedEdgeIds |-> selectedEdgeIds,
   clipboard |-> clipboard, pan |-> pan, scale |-> scale,
   undoStack |-> undoStack, redoStack |-> redoStack, linking |-> linking,
   marquee |-> marquee, draggingNodeId |-> draggingNodeId,
   dragOffset |-> dragOffset, somethingMoved |-> somethingMoved,
   groupDragging |-> groupDragging, groupStart |-> groupStart,
   groupStartPositions |-> groupStartPositions, panning |-> panning,
   panStart |-> panStart, panAtStart |-> panAtStart, editingId |-> editingId,
   freshTyping |-> freshTyping, shiftTabPath |-> shiftTabPath,
   shiftTabIndex |-> shiftTabIndex, prevSelectedId |-> prevSelectedId,
   contextMenu |-> contextMenu, timers |-> timers, clock |-> clock,
   pointerDown |-> pointerDown, imported |-> imported,
   dirty |-> FALSE, pushed |-> 0, kind |-> "other", ret |-> Null, ids |-> {},
   eids |-> {}, doc |-> <<>>, arg |-> Null, mod |-> "none", at |-> <<>>,
   probes |-> 0]

(* What a pointer, wheel, menu or timer handler of the latest render reads. *)
LiveClosure == State
(* What the keydown handler reads: nodes, edges, pan and scale are those   *)
(* of the render that registered it.                                       *)
KeyClosure ==
  [State EXCEPT !.nodes = kb.nodes, !.edges = kb.edges,
                !.pan = kb.pan, !.scale = kb.scale]

idleLinking ==
  [phase |-> "idle", sourceId |-> Null, x |-> 0, y |-> 0, startX |-> 0, startY |-> 0]
noMarquee == [active |-> FALSE, x1 |-> 0, y1 |-> 0, x2 |-> 0, y2 |-> 0]

toScreen(c, wx, wy) == Pt(c.pan.x + wx * c.scale, c.pan.y + wy * c.scale)

(***************************************************************************)
(* Selection.                                                              *)
(***************************************************************************)
selectOnly(c, s, id) ==
  [s EXCEPT !.shiftTabPath = <<>>,
            !.shiftTabIndex = 0,
            !.prevSelectedId =
               IF c.selectedId # Null /\ c.selectedId # id THEN c.selectedId ELSE @,
            !.selectedId = id,
            !.selectedIds = <<id>>,
            !.selectedEdgeIds = {},
            !.freshTyping = TRUE,
            !.dirty = TRUE]

clearSelection(s) ==
  [s EXCEPT !.selectedId = Null, !.selectedIds = <<>>, !.selectedEdgeIds = {},
            !.freshTyping = TRUE, !.dirty = TRUE]

RECURSIVE dedupe(_, _)
dedupe(seq, seen) ==
  IF seq = <<>> THEN <<>>
  ELSE IF Head(seq) \in seen THEN dedupe(Tail(seq), seen)
       ELSE <<Head(seq)>> \o dedupe(Tail(seq), seen \cup {Head(seq)})

(* new Set(ids) keeps the first occurrence of each id *)
selectFromArray(s, ids) ==
  [s EXCEPT !.selectedId = IF Len(ids) > 0 THEN ids[1] ELSE Null,
            !.selectedIds = dedupe(ids, {}),
            !.selectedEdgeIds = {},
            !.freshTyping = TRUE,
            !.dirty = TRUE]

(***************************************************************************)
(* History.                                                                *)
(***************************************************************************)
snapshot(c) ==
  [nodes |-> c.nodes, edges |-> c.edges, pan |-> c.pan, scale |-> c.scale,
   selectedId |-> c.selectedId, selectedIds |-> c.selectedIds,
   selectedEdgeIds |-> c.selectedEdgeIds]

(* JSON.parse(JSON.stringify(s)): an independent copy.  Every value of a   *)
(* snapshot is a number, a string, a boolean, null or an array of these,   *)
(* which the round trip through JSON text reproduces field by field.       *)
cloneSnapshot(snap) ==
  [nodes |-> [i \in 1..Len(snap.nodes) |->
                [f \in DOMAIN snap.nodes[i] |-> snap.nodes[i][f]]],
   edges |-> [i \in 1..Len(snap.edges) |->
                [f \in DOMAIN snap.edges[i] |-> snap.edges[i][f]]],
   pan |-> [x |-> snap.pan.x, y |-> snap.pan.y],
   scale |-> snap.scale,
   selectedId |-> snap.selectedId,
   selectedIds |-> snap.selectedIds,
   selectedEdgeIds |-> snap.selectedEdgeIds]

pushHistory_keepRedo(c, s) ==
  [s EXCEPT !.undoStack = Append(@, cloneSnapshot(snapshot(c))),
            !.pushed = @ + 1]
pushHistory(c, s) ==
  [s EXCEPT !.undoStack = Append(@, cloneSnapshot(snapshot(c))),
            !.redoStack = <<>>,
            !.pushed = @ + 1]

restore(s, snap) ==
  [s EXCEPT !.nodes = snap.nodes, !.edges = snap.edges, !.pan = snap.pan,
            !.scale = snap.scale, !.selectedId = snap.selectedId,
            !.selectedIds = snap.selectedIds,
            !.selectedEdgeIds = snap.selectedEdgeIds,
            !.dirty = TRUE]

undo_noEmptyCheck(c, s) ==
  LET popped == [s EXCEPT !.undoStack = IF @ = <<>> THEN @ ELSE Front(@),
                          !.redoStack = Append(@, cloneSnapshot(snapshot(c)))]
  IN  IF s.undoStack = <<>> THEN [popped EXCEPT !.kind = "undoEmpty"]
      ELSE [restore(popped, Last(s.undoStack)) EXCEPT !.kind = "undo"]
undo(c, s) ==
  IF s.undoStack = <<>> THEN [s EXCEPT !.kind = "undoEmpty"]
  ELSE [restore([s EXCEPT !.undoStack = Front(@),
                          !.redoStack = Append(@, cloneSnapshot(snapshot(c)))],
                Last(s.undoStack))
          EXCEPT !.kind = "undo"]

redo(c, s) ==
  IF s.redoStack = <<>> THEN [s EXCEPT !.kind = "redoEmpty"]
  ELSE [restore([s EXCEPT !.redoStack = Front(@),
                          !.undoStack = Append(@, cloneSnapshot(snapshot(c)))],
                Last(s.redoStack))
          EXCEPT !.kind = "redo"]

(***************************************************************************)
(* Camera.                                                                 *)
(***************************************************************************)
bringBoxIntoView(c, s, cx, cy, w, h) ==
  LET margin == 24
      left == toScreen(c, cx - w \div 2, cy - h \div 2)
      right == toScreen(c, cx + w \div 2, cy + h \div 2)
      x1 == IF left.x < margin THEN c.pan.x + (margin - left.x) ELSE c.pan.x
      x2 == IF right.x > ViewRect.width - margin
            THEN x1 - (right.x - (ViewRect.width - margin)) ELSE x1
      y1 == IF left.y < margin THEN c.pan.y + (margin - left.y) ELSE c.pan.y
      y2 == IF right.y > ViewRect.height - margin
            THEN y1 - (right.y - (ViewRect.height - margin)) ELSE y1
  IN  IF x2 # c.pan.x \/ y2 # c.pan.y THEN [s EXCEPT !.pan = Pt(x2, y2)] ELSE s

(* setTimeout(() => bringBoxIntoView(x, y, BASE_W, BASE_H), 0): the        *)
(* callback keeps the pan and scale of the render that scheduled it.       *)
scheduleView(c, s, x, y) ==
  [s EXCEPT !.timers = Append(@, [x |-> x, y |-> y, pan |-> c.pan, scale |-> c.scale])]

(***************************************************************************)
(* Adding and removing.                                                    *)
(***************************************************************************)
newEdge(id, a, b, isArrow) ==
  [id |-> id, source |-> a, target |-> b, label |-> <<>>, dashed |-> FALSE,
   arrow |-> isArrow]

edgeBetween(es, a, b) ==
  {i \in 1..Len(es) : \/ (es[i].source = a /\ es[i].target = b)
                      \/ (es[i].source = b /\ es[i].target = a)}

ensureEdge_arrowOn(c, s, a, b, isArrow) ==
  IF a = b THEN s
  ELSE IF edgeBetween(c.edges, a, b) # {} THEN s
  ELSE [s EXCEPT !.edges = Append(@, newEdge(s.clock, a, b, TRUE)),
                 !.clock = @ + 1]
ensureEdge(c, s, a, b, isArrow) ==
  IF a = b THEN s
  ELSE IF edgeBetween(c.edges, a, b) # {} THEN s
  ELSE [s EXCEPT !.edges = Append(@, newEdge(s.clock, a, b, isArrow)),
                 !.clock = @ + 1]

newNode(id, x, y, stroke, fill) ==
  [id |-> id, label |-> <<>>, x |-> x, y |-> y, w |-> BASE_W, h |-> BASE_H,
   strokeColor |-> stroke, fillColor |-> fill, bold |-> FALSE]

RECURSIVE diagonalSearch(_, _, _, _, _)
(* while (!isPositionFree(x, y)) { x += 20; y += 20; }                     *)
(* probes: the number of isPositionFree calls, i of them before this one;  *)
(* sixteen turns of the loop are evaluated at a time                       *)
diagonalSearch(ns, es, x, y, i) ==
  LET free == {j \in 0..15 : isPositionFree(ns, es, x + 20 * j, y + 20 * j, Null)}
      j == CHOOSE k \in free : \A m \in free : k <= m
  IN  IF free # {}
      THEN [x |-> x + 20 * j, y |-> y + 20 * j, probes |-> i + j + 1]
      ELSE diagonalSearch(ns, es, x + 320, y + 320, i + 16)

(* at: <<>> (no argument) or <<point>> *)
addStandalone(c, s, at) ==
  LET s1 == pushHistory(c, s)
      newId == nextNodeId(c.nodes)
      p == IF at # <<>>
           THEN (* the answer of isPositionFree(x, y) is not used *)
                [x |-> at[1].x, y |-> at[1].y, probes |-> 1]
           ELSE diagonalSearch(c.nodes, c.edges,
                               RoundDiv(ViewRect.width \div 2 - c.pan.x, c.scale),
                               RoundDiv(ViewRect.height \div 2 - c.pan.y, c.scale), 0)
      s2 == [s1 EXCEPT !.nodes = Append(@, newNode(newId, p.x, p.y, "#333", "none")),
                       !.ret = newId, !.kind = "op", !.at = at,
                       !.probes = p.probes]
  IN  scheduleView(c, s2, p.x, p.y)

RECURSIVE childSearch(_, _, _, _, _, _)
(* the placement loop of addChild: probe i at angle k * GOLDEN_ANGLE *)
childSearch_noRetry(ns, es, parent, k, radius, i) ==
  [x |-> parent.x + RoundDiv(cosGolden[k + 1] * radius, 10000),
   y |-> parent.y + RoundDiv(sinGolden[k + 1] * radius, 10000), probes |-> 1]
childSearch(ns, es, parent, k, radius, i) ==
  LET x == parent.x + RoundDiv(cosGolden[k + 1] * radius, 10000)
      y == parent.y + RoundDiv(sinGolden[k + 1] * radius, 10000)
  IN  IF isPositionFree(ns, es, x, y, parent.id) \/ i = 95
      THEN [x |-> x, y |-> y, probes |-> i + 1]
      ELSE childSearch(ns, es, parent, k + 1,
                       IF i % 8 = 7 THEN radius + 24 ELSE radius, i + 1)

addChild(c, s, parentId) ==
  IF ~hasId(c.nodes, parentId) THEN [s EXCEPT !.ret = parentId]
  ELSE LET parent == findById(c.nodes, parentId)
           s1 == pushHistory(c, s)
           newId == nextNodeId(c.nodes)
           p == childSearch(c.nodes, c.edges, parent,
                            childCount(c.edges, parentId), CHILD_RADIUS, 0)
           child == newNode(newId, p.x, p.y, parent.strokeColor, parent.fillColor)
           s2 == [s1 EXCEPT !.nodes = Append(@, child),
                            !.edges = Append(@, newEdge(s1.clock, parentId, newId, FALSE)),
                            !.clock = @ + 1,
                            !.ret = newId, !.kind = "op", !.probes = p.probes]
       IN  scheduleView(c, s2, p.x, p.y)

addSiblingOf(c, s, nodeId) ==
  IF getParentId(c.edges, nodeId) # Null
  THEN addChild(c, s, getParentId(c.edges, nodeId))
  ELSE addStandalone(c, s, <<>>)

(* prev.filter(x => !del.has(x.id)) *)
withoutIds(seq, del) == FilterSeq(seq, {x \in SeqToSet(seq) : x.id \notin del})
(* prev.filter(e => !del.has(e.source) && !del.has(e.target)) *)
withoutTouching(es, del) ==
  FilterSeq(es, {e \in SeqToSet(es) : e.source \notin del /\ e.target \notin del})

(* ids: a sequence (Array.from of a selection, or a one-element array) *)
removeEdges(c, s, ids) ==
  IF ids = <<>> THEN s
  ELSE LET s1 == pushHistory(c, s)
           del == SeqToSet(ids)
       IN  [s1 EXCEPT !.edges = withoutIds(@, del),
                      !.selectedEdgeIds = {},
                      !.dirty = TRUE, !.kind = "op", !.eids = del]

removeNodes_keepEdges(c, s, ids) ==
  IF ids = <<>> THEN s
  ELSE LET s1 == pushHistory(c, s)
           del == SeqToSet(ids)
       IN  clearSelection([s1 EXCEPT !.nodes = withoutIds(@, del),
                                     !.kind = "op", !.ids = del])
removeNodes(c, s, ids) ==
  IF ids = <<>> THEN s
  ELSE LET s1 == pushHistory(c, s)
           del == SeqToSet(ids)
       IN  clearSelection([s1 EXCEPT !.nodes = withoutIds(@, del),
                                     !.edges = withoutTouching(@, del),
                                     !.kind = "op", !.ids = del])

(***************************************************************************)
(* Pointer handlers.  w is the world point under the pointer; the client   *)
(* point of the event is toScreen(c, w.x, w.y), so toWorld gives w back.   *)
(***************************************************************************)
firstEdgeBetween(es, a, b) ==
  es[CHOOSE i \in edgeBetween(es, a, b) : \A j \in edgeBetween(es, a, b) : i <= j]

(* a state update whose updater throws while rendering unmounts the tree *)
crash(s) == [s EXCEPT !.kind = "crash"]

(* mod: "none", "shift" (shift only) or "ctrl" (ctrl or meta) *)
onPointerDownNode(c, s, id, w, mod) ==
  IF c.editingId # Null THEN s
  ELSE IF mod = "shift" THEN
    IF c.selectedId # Null /\ c.selectedId # id
    THEN IF edgeBetween(c.edges, c.selectedId, id) # {}
         THEN selectOnly(c, [removeEdges(c, pushHistory(c, s),
                               <<firstEdgeBetween(c.edges, c.selectedId, id).id>>)
                               EXCEPT !.kind = "op"], id)
         ELSE selectOnly(c, [ensureEdge(c, pushHistory(c, s), c.selectedId, id, FALSE)
                               EXCEPT !.kind = "op"], id)
    ELSE LET src == findById(c.nodes, id)
         IN  [selectOnly(c, s, id) EXCEPT
                !.linking = [phase |-> "pending", sourceId |-> id, x |-> src.x,
                             y |-> src.y, startX |-> src.x, startY |-> src.y]]
  ELSE IF c.linking.phase # "idle" THEN s
  ELSE IF mod = "ctrl" THEN
    LET prev == s.selectedIds
        next == IF id \in SeqToSet(prev) THEN FilterSeq(prev, SeqToSet(prev) \ {id})
                ELSE Append(prev, id)
    IN  [s EXCEPT !.selectedIds = next,
                  !.selectedId = IF next = <<>> THEN Null ELSE next[1],
                  !.selectedEdgeIds = {},
                  !.freshTyping = TRUE,
                  !.dirty = TRUE]
  ELSE
    LET wasInSelection == id \in SeqToSet(c.selectedIds)
        s1 == IF wasInSelection THEN [s EXCEPT !.freshTyping = TRUE]
              ELSE selectOnly(c, [s EXCEPT !.freshTyping = TRUE], id)
    IN  IF Len(c.selectedIds) > 1
        THEN (* nodes.find(...)!.x throws for a selected id without a node, *)
             (* after the two assignments before it                        *)
             IF \A k \in 1..Len(c.selectedIds) : hasId(c.nodes, c.selectedIds[k])
             THEN [s1 EXCEPT !.groupDragging = TRUE,
                             !.groupStart = w,
                             !.groupStartPositions =
                                [k \in 1..Len(c.selectedIds) |->
                                   [id |-> c.selectedIds[k],
                                    x |-> findById(c.nodes, c.selectedIds[k]).x,
                                    y |-> findById(c.nodes, c.selectedIds[k]).y]]]
             ELSE [s1 EXCEPT !.groupDragging = TRUE, !.groupStart = w]
        ELSE LET node == findById(c.nodes, id)
             IN  [s1 EXCEPT !.draggingNodeId = id,
                            !.dragOffset = [dx |-> node.x - w.x, dy |-> node.y - w.y],
                            !.somethingMoved = FALSE]

(* e.stopPropagation() was reached in onPointerDownNode *)
nodeDownStops(c, mod) ==
  c.editingId = Null /\ (mod = "shift" \/ (c.linking.phase = "idle" /\ mod = "ctrl"))

(* one pointer: activeTouches holds this pointer only *)
onPointerDownSvg(c, s, w) ==
  [s EXCEPT !.panning = TRUE,
            !.panStart = toScreen(c, w.x, w.y),
            !.panAtStart = c.pan]

onPointerDownBg(c, s, w, shift) ==
  LET s1 == IF c.editingId # Null THEN [s EXCEPT !.editingId = Null, !.dirty = TRUE]
            ELSE s
  IN  IF c.linking.phase # "idle" THEN s1
      ELSE IF shift
      THEN [s1 EXCEPT !.marquee = [active |-> TRUE, x1 |-> w.x, y1 |-> w.y,
                                   x2 |-> w.x, y2 |-> w.y]]
      ELSE [clearSelection(s1) EXCEPT !.panning = TRUE,
                                      !.panStart = toScreen(c, w.x, w.y),
                                      !.panAtStart = c.pan,
                                      !.freshTyping = TRUE]

groupPos(positions, id) ==
  positions[CHOOSE k \in 1..Len(positions) :
              positions[k].id = id /\ \A j \in (k + 1)..Len(positions) : positions[j].id # id]

onPointerMoveSvg(c, s, w) ==
  IF c.marquee.active
  THEN [s EXCEPT !.marquee = [@ EXCEPT !.x2 = w.x, !.y2 = w.y]]
  ELSE IF c.linking.phase \in {"pending", "active"}
  THEN LET moved == dist2(w.x, w.y, c.linking.startX, c.linking.startY)
                      * c.scale * c.scale > DRAG_THRESHOLD * DRAG_THRESHOLD
       IN  IF c.linking.phase = "pending" /\ moved
           THEN [s EXCEPT !.linking = [@ EXCEPT !.phase = "active", !.x = w.x, !.y = w.y]]
           ELSE IF c.linking.phase = "active"
           THEN [s EXCEPT !.linking = [@ EXCEPT !.x = w.x, !.y = w.y]]
           ELSE s
  ELSE IF s.groupDragging
  THEN LET dx == w.x - s.groupStart.x
           dy == w.y - s.groupStart.y
           sel == SeqToSet(c.selectedIds)
           known == {s.groupStartPositions[k].id : k \in 1..Len(s.groupStartPositions)}
           s1 == [s EXCEPT !.somethingMoved = TRUE]
       IN  IF \E i \in 1..Len(s.nodes) : s.nodes[i].id \in sel \ known
           THEN crash(s1)
           ELSE [s1 EXCEPT !.kind = "part", !.nodes =
                   [i \in 1..Len(@) |->
                      IF @[i].id \in sel
                      THEN [@[i] EXCEPT
                              !.x = groupPos(s.groupStartPositions, s.nodes[i].id).x + dx,
                              !.y = groupPos(s.groupStartPositions, s.nodes[i].id).y + dy]
                      ELSE @[i]]]
  ELSE IF s.draggingNodeId # Null
  THEN [s EXCEPT !.kind = "part", !.somethingMoved = TRUE, !.nodes =
          [i \in 1..Len(@) |->
             IF @[i].id = s.draggingNodeId
             THEN [@[i] EXCEPT !.x = w.x + s.dragOffset.dx, !.y = w.y + s.dragOffset.dy]
             ELSE @[i]]]
  ELSE IF s.panning
  THEN [s EXCEPT !.pan = Pt(s.panAtStart.x + (toScreen(c, w.x, w.y).x - s.panStart.x),
                            s.panAtStart.y + (toScreen(c, w.x, w.y).y - s.panStart.y))]
  ELSE s

insideMarquee(m, n) ==
  /\ n.x >= Min(m.x1, m.x2) /\ n.x <= Max(m.x1, m.x2)
  /\ n.y >= Min(m.y1, m.y2) /\ n.y <= Max(m.y1, m.y2)

RECURSIVE idsInside(_, _)
idsInside(m, ns) ==
  IF ns = <<>> THEN <<>>
  ELSE (IF insideMarquee(m, Head(ns)) THEN <<Head(ns).id>> ELSE <<>>)
       \o idsInside(m, Tail(ns))

onPointerUpSvg(c, s) ==
  LET s1 == IF c.marquee.active
            THEN [selectFromArray(s, idsInside(c.marquee, c.nodes))
                    EXCEPT !.marquee = noMarquee]
            ELSE s
      targetId == findNodeAt(c.nodes, c.linking.x, c.linking.y, c.linking.sourceId)
      s2 == IF c.linking.phase \in {"pending", "active"} /\ c.linking.sourceId # Null
            THEN LET s2a ==
                       IF targetId = Null THEN s1
                       ELSE IF edgeBetween(c.edges, c.linking.sourceId, targetId) # {}
                       THEN selectOnly(c, s1, targetId)
                       ELSE LET p == pushHistory(c, s1)
                            IN  selectOnly(c,
                                  [p EXCEPT !.edges = Append(@,
                                               newEdge(p.clock, c.linking.sourceId,
                                                       targetId, c.linking.phase = "active")),
                                            !.clock = @ + 1,
                                            !.kind = "op"],
                                  targetId)
                 IN  [s2a EXCEPT !.linking = idleLinking]
            ELSE s1
      s3 == IF s2.somethingMoved THEN [pushHistory(c, s2) EXCEPT !.kind = "op"] ELSE s2
  IN  [s3 EXCEPT !.draggingNodeId = Null, !.groupDragging = FALSE,
                 !.panning = FALSE, !.somethingMoved = FALSE]

onPointerCancelSvg(s) == [s EXCEPT !.panning = FALSE]

(* factor: scale * factor is the wheel's target scale before clamping; the *)
(* lower limit 0.3 lies below every scale of the model                     *)
onWheelSvg(c, s, w, target, shift, delta) ==
  IF ~shift
  THEN LET newScale == clamp(target, 1, 3)
           m == toScreen(c, w.x, w.y)
       IN  [s EXCEPT !.pan = Pt(m.x - w.x * newScale, m.y - w.y * newScale),
                     !.scale = newScale]
  ELSE [s EXCEPT !.pan = Pt(@.x - delta.x, @.y - delta.y)]

onEdgePointerDown(s, edgeId, shift) ==
  [s EXCEPT !.selectedIds = <<>>,
            !.selectedId = Null,
            !.selectedEdgeIds = IF shift
                                THEN IF edgeId \in @ THEN @ \ {edgeId} ELSE @ \cup {edgeId}
                                ELSE {edgeId},
            !.freshTyping = TRUE,
            !.dirty = TRUE]

(***************************************************************************)
(* Keyboard handler (always called with the closure of the keydown effect) *)
(***************************************************************************)
(* prev.map(n => ids.includes(n.id) ? { ...n, bold: !n.bold } : n) *)
toggleBold(ns, ids) ==
  [i \in 1..Len(ns) |-> IF ns[i].id \in ids THEN [ns[i] EXCEPT !.bold = ~@] ELSE ns[i]]

(* the label after a key: "set" replaces it by text, "append" adds text,   *)
(* "slice" drops the last character                                        *)
editLabel(label, how, text) ==
  IF how = "set" THEN text
  ELSE IF how = "append" THEN label \o text
  ELSE IF label = <<>> THEN <<>> ELSE Front(label)

(* prev.map(n => ids.includes(n.id) ? resizeNodeForLabel({...n, label}) : n) *)
relabelNodes(ns, ids, how, text) ==
  [i \in 1..Len(ns) |->
     IF ns[i].id \in ids
     THEN resizeNodeForLabel([ns[i] EXCEPT !.label = editLabel(@, how, text)])
     ELSE ns[i]]

(* prev.map(ed => selectedEdgeIds.has(ed.id) ? {...ed, label} : ed) *)
relabelEdges(es, ids, how, text) ==
  [i \in 1..Len(es) |->
     IF es[i].id \in ids THEN [es[i] EXCEPT !.label = editLabel(@, how, text)]
     ELSE es[i]]

keyBold(c, s) ==
  IF c.selectedIds = <<>> THEN s
  ELSE [pushHistory(c, s) EXCEPT !.nodes = toggleBold(@, SeqToSet(c.selectedIds)),
                                 !.kind = "op"]

keyCopy(c, s) ==
  IF c.selectedIds = <<>> THEN s
  ELSE LET sel == SeqToSet(c.selectedIds)
       IN  [s EXCEPT !.clipboard =
                       <<[nodes |-> FilterSeq(c.nodes, {n \in SeqToSet(c.nodes) : n.id \in sel}),
                          edges |-> FilterSeq(c.edges,
                                      {e \in SeqToSet(c.edges) :
                                         e.source \in sel /\ e.target \in sel})]>>,
                     !.dirty = TRUE]

(* idMap.get(id): the new id given to the last copied node with that id *)
pastedId(cn, base, id) ==
  base + (CHOOSE k \in 1..Len(cn) :
            cn[k].id = id /\ \A j \in (k + 1)..Len(cn) : cn[j].id # id)

keyPaste_sameIds(c, s) ==
  IF c.clipboard = <<>> THEN s
  ELSE LET cn == c.clipboard[1].nodes
           ce == c.clipboard[1].edges
           pasteOffset == 20
           newNodes == [k \in 1..Len(cn) |->
                          [cn[k] EXCEPT !.x = @ + pasteOffset, !.y = @ + pasteOffset]]
           newEdges == [k \in 1..Len(ce) |-> [ce[k] EXCEPT !.id = s.clock + (k - 1)]]
           s1 == pushHistory(c, s)
       IN  selectFromArray([s1 EXCEPT !.nodes = @ \o newNodes,
                                      !.edges = @ \o newEdges,
                                      !.clock = @ + Len(ce),
                                      !.kind = "op"],
                           [k \in 1..Len(cn) |-> cn[k].id])
keyPaste(c, s) ==
  IF c.clipboard = <<>> THEN s
  ELSE LET cn == c.clipboard[1].nodes
           ce == c.clipboard[1].edges
           base == maxId(c.nodes)
           pasteOffset == 20
           newNodes == [k \in 1..Len(cn) |->
                          [cn[k] EXCEPT !.id = base + k, !.x = @ + pasteOffset,
                                        !.y = @ + pasteOffset]]
           newEdges == [k \in 1..Len(ce) |->
                          [ce[k] EXCEPT !.id = s.clock + (k - 1),
                                        !.source = pastedId(cn, base, @),
                                        !.target = pastedId(cn, base, @)]]
           s1 == pushHistory(c, s)
       IN  selectFromArray([s1 EXCEPT !.nodes = @ \o newNodes,
                                      !.edges = @ \o newEdges,
                                      !.clock = @ + Len(ce),
                                      !.kind = "op"],
                           [k \in 1..Len(cn) |-> base + k])

RECURSIVE fracLess(_, _, _, _)
(* a/b < c/d for a, c >= 0 and b, d > 0, without forming products *)
fracLess(a, b, c, d) ==
  LET qa == a \div b
      qc == c \div d
      ra == a % b
      rc == c % d
  IN  IF qa # qc THEN qa < qc
      ELSE IF rc = 0 THEN FALSE
      ELSE IF ra = 0 THEN TRUE
      ELSE fracLess(d, rc, b, ra)

(* candidates carry dot (> 0) and the squared distance d2 (> 0);           *)
(* angle = acos(dot / sqrt(d2))                                            *)
angleLess(p, q) == fracLess(q.dot * q.dot, q.d2, p.dot * p.dot, p.d2)
angleWithin30(p) == 4 * p.dot * p.dot >= 3 * p.d2
angleWithin60(p) == 4 * p.dot * p.dot >= p.d2
(* |sqrt(a) - sqrt(b)| <= 1e-3, with the roots taken to the integer below *)
distClose(a, b) == Abs(a - b) <= 10 /\ 1000 * Abs(a - b) <= Isqrt(a) + Isqrt(b)
distLess(a, b) == a < b /\ ~distClose(a, b)

navCandidates(ns, cur, dir) ==
  LET cand(n) == [id |-> n.id, d2 |-> dist2(n.x, n.y, cur.x, cur.y),
                  dot |-> (n.x - cur.x) * dir.x + (n.y - cur.y) * dir.y]
      all == [i \in 1..Len(ns) |-> cand(ns[i])]
  IN  FilterSeq(all, {p \in SeqToSet(all) : p.id # cur.id /\ p.d2 # 0 /\ p.dot > 0})

RECURSIVE pickWithin(_, _, _)
(* best: <<>> (null) or <<candidate>>; maxAngle: 30 or 60 degrees *)
pickWithin(cands, maxAngle, best) ==
  IF cands = <<>> THEN best
  ELSE LET p == Head(cands)
           within == IF maxAngle = 30 THEN angleWithin30(p) ELSE angleWithin60(p)
       IN  IF ~within THEN pickWithin(Tail(cands), maxAngle, best)
           ELSE IF best = <<>> THEN pickWithin(Tail(cands), maxAngle, <<p>>)
           ELSE IF \/ distLess(p.d2, best[1].d2)
                   \/ (distClose(p.d2, best[1].d2) /\ angleLess(p, best[1]))
                THEN pickWithin(Tail(cands), maxAngle, <<p>>)
                ELSE pickWithin(Tail(cands), maxAngle, best)

RECURSIVE minAngle(_, _)
minAngle(cands, acc) ==
  IF cands = <<>> THEN acc
  ELSE minAngle(Tail(cands), IF angleLess(Head(cands), acc) THEN Head(cands) ELSE acc)

navigateTo(c, s, id) ==
  LET s1 == selectOnly(c, s, id)
  IN  IF hasId(c.nodes, id)
      THEN LET n == findById(c.nodes, id) IN bringBoxIntoView(c, s1, n.x, n.y, n.w, n.h)
      ELSE s1

keyArrow(c, s, dir) ==
  IF c.selectedId = Null \/ ~hasId(c.nodes, c.selectedId) THEN s
  ELSE LET cands == navCandidates(c.nodes, findById(c.nodes, c.selectedId), dir)
           b30 == pickWithin(cands, 30, <<>>)
           b60 == pickWithin(cands, 60, <<>>)
       IN  IF cands = <<>> THEN s
           ELSE navigateTo(c, s, IF b30 # <<>> THEN b30[1].id
                                 ELSE IF b60 # <<>> THEN b60[1].id
                                 ELSE minAngle(Tail(cands), Head(cands)).id)

RECURSIVE upChain(_, _, _)
(* cur, parent(cur), ... up to the node without an incoming edge; <<>>     *)
(* when the walk does not end (the edges into cur form a cycle)            *)
upChain(es, cur, fuel) ==
  IF fuel = 0 THEN <<>>
  ELSE IF getParentId(es, cur) = Null THEN <<cur>>
  ELSE LET rest == upChain(es, getParentId(es, cur), fuel - 1)
       IN  IF rest = <<>> THEN <<>> ELSE <<cur>> \o rest

Reverse(seq) == [i \in 1..Len(seq) |-> seq[Len(seq) + 1 - i]]

(* <<>> stands for a while loop that never returns *)
buildRootPath(es, startId) == Reverse(upChain(es, startId, Len(es) + 1))

keyShiftTab(c, s) ==
  LET fresh == s.shiftTabPath = <<>> \/ c.selectedId \notin SeqToSet(s.shiftTabPath)
      path == IF fresh THEN buildRootPath(c.edges, c.selectedId) ELSE s.shiftTabPath
      idx0 == IF fresh THEN Len(path) - 1 ELSE s.shiftTabIndex
      s1 == [s EXCEPT !.shiftTabPath = path, !.shiftTabIndex = idx0]
      idx == IF idx0 > 0 THEN idx0 - 1 ELSE idx0 + 1
  IN  IF path = <<>> THEN [s EXCEPT !.kind = "hang"]
      ELSE IF idx0 <= 0 /\ ~(idx0 < Len(path) - 1) THEN s1
      ELSE (* selectOnly resets the two refs that were just written *)
           navigateTo(c, [s1 EXCEPT !.shiftTabIndex = idx], path[idx + 1])

keyTab(c, s) ==
  IF s.prevSelectedId = Null \/ s.prevSelectedId = c.selectedId THEN s
  ELSE IF ~hasId(c.nodes, s.prevSelectedId) THEN s
  ELSE navigateTo(c, s, s.prevSelectedId)

RECURSIVE SetToSeq(_)
(* Array.from(set); only the members matter to the callers *)
SetToSeq(S) ==
  IF S = {} THEN <<>>
  ELSE LET m == CHOOSE x \in S : \A y \in S : x <= y
       IN  <<m>> \o SetToSeq(S \ {m})

keyDelete(c, s) ==
  IF c.selectedIds # <<>> THEN removeNodes(c, s, c.selectedIds)
  ELSE IF c.selectedEdgeIds # {}
  THEN removeEdges(c, s, SetToSeq(c.selectedEdgeIds))
  ELSE s

keyBackspace(c, s) ==
  IF c.selectedEdgeIds # {} /\ c.selectedIds = <<>>
  THEN [pushHistory(c, s) EXCEPT !.kind = "op",
          !.edges = relabelEdges(@, c.selectedEdgeIds, "slice", <<>>)]
  ELSE IF Len(c.selectedIds) > 1 THEN removeNodes(c, s, c.selectedIds)
  ELSE IF Len(c.selectedIds) = 1
  THEN [pushHistory(c, s) EXCEPT !.kind = "op",
          !.nodes = relabelNodes(@, {c.selectedIds[1]}, "slice", <<>>)]
  ELSE s

keyChar(c, s, char) ==
  LET how == IF s.freshTyping THEN "set" ELSE "append"
  IN  IF c.selectedEdgeIds # {}
      THEN [pushHistory(c, s) EXCEPT !.kind = "op", !.freshTyping = FALSE,
              !.edges = relabelEdges(@, c.selectedEdgeIds, how, <<char>>)]
      ELSE IF c.selectedIds # <<>>
      THEN [pushHistory(c, s) EXCEPT !.kind = "op", !.freshTyping = FALSE,
              !.nodes = relabelNodes(@, SeqToSet(c.selectedIds), how, <<char>>)]
      ELSE s

keyEnter(c, s) ==
  LET s1 == addChild(c, s, c.selectedId)
  IN  [selectOnly(c, s1, s1.ret) EXCEPT !.freshTyping = TRUE]

keyShiftEnter(c, s) ==
  LET s1 == addSiblingOf(c, s, c.selectedId)
  IN  [selectOnly(c, s1, s1.ret) EXCEPT !.freshTyping = TRUE]

Keys ==
  {"undo", "redo", "bold", "copy", "paste", "ArrowUp", "ArrowDown", "ArrowLeft",
   "ArrowRight", "ShiftTab", "Tab", "Delete", "Backspace", "char", "Enter",
   "ShiftEnter"}

arrowDir(key) ==
  IF key = "ArrowUp" THEN Pt(0, -1)
  ELSE IF key = "ArrowDown" THEN Pt(0, 1)
  ELSE IF key = "ArrowLeft" THEN Pt(-1, 0)
  ELSE Pt(1, 0)

(* the keydown handler; char is the typed character when key = "char" *)
handler(c, s, key, char) ==
  LET single == c.selectedId # Null /\ Len(c.selectedIds) = 1
  IN  IF c.editingId # Null THEN s
      ELSE IF key = "undo" THEN undo(c, s)
      ELSE IF key = "redo" THEN redo(c, s)
      ELSE IF key = "bold" THEN keyBold(c, s)
      ELSE IF key = "copy" THEN keyCopy(c, s)
      ELSE IF key = "paste" THEN keyPaste(c, s)
      ELSE IF key \in {"ArrowUp", "ArrowDown", "ArrowLeft", "ArrowRight"}
      THEN keyArrow(c, s, arrowDir(key))
      ELSE IF key = "ShiftTab" THEN (IF single THEN keyShiftTab(c, s) ELSE s)
      ELSE IF key = "Tab" THEN (IF single THEN keyTab(c, s) ELSE s)
      ELSE IF key = "Delete" THEN keyDelete(c, s)
      ELSE IF key = "Backspace" THEN keyBackspace(c, s)
      ELSE IF key = "char" THEN keyChar(c, s, char)
      ELSE IF key = "Enter" THEN (IF single THEN keyEnter(c, s) ELSE s)
      ELSE IF key = "ShiftEnter" THEN (IF single THEN keyShiftEnter(c, s) ELSE s)
      ELSE s

(***************************************************************************)
(* Context menu, rename input, import.                                     *)
(***************************************************************************)
closedMenu ==
  [open |-> FALSE, kind |-> "bg", targetNodeId |-> Null, targetEdgeId |-> Null, at |-> <<>>]

closeMenu(c, s) == [s EXCEPT !.contextMenu = [c.contextMenu EXCEPT !.open = FALSE]]

onContextMenuNode(c, s, id) ==
  LET s1 == IF id \in SeqToSet(c.selectedIds) THEN s ELSE selectOnly(c, s, id)
  IN  [s1 EXCEPT !.contextMenu = [closedMenu EXCEPT !.open = TRUE, !.kind = "node",
                                                   !.targetNodeId = id]]

onContextMenuBg(s, w) ==
  [s EXCEPT !.contextMenu = [closedMenu EXCEPT !.open = TRUE, !.kind = "bg", !.at = <<w>>]]

onContextMenuEdge(s, edgeId) ==
  [s EXCEPT !.selectedIds = <<>>, !.selectedId = Null, !.selectedEdgeIds = {edgeId},
            !.dirty = TRUE,
            !.contextMenu = [closedMenu EXCEPT !.open = TRUE, !.kind = "edge",
                                               !.targetEdgeId = edgeId]]

menuNewNode(c, s) ==
  LET s1 == addStandalone(c, s, c.contextMenu.at)
  IN  closeMenu(c, selectOnly(c, s1, s1.ret))

menuRename(c, s) ==
  closeMenu(c, IF c.contextMenu.targetNodeId # Null
               THEN [s EXCEPT !.editingId = c.contextMenu.targetNodeId,
                              !.dirty = @ \/ c.editingId # c.contextMenu.targetNodeId]
               ELSE s)

menuChild(c, s) ==
  closeMenu(c, IF c.contextMenu.targetNodeId # Null
               THEN LET s1 == addChild(c, s, c.contextMenu.targetNodeId)
                    IN  selectOnly(c, s1, s1.ret)
               ELSE s)

menuHighlight(c, s) ==
  closeMenu(c, IF c.contextMenu.targetNodeId # Null
               THEN [pushHistory(c, s) EXCEPT
                       !.nodes = toggleBold(@, SeqToSet(c.selectedIds)), !.kind = "op"]
               ELSE s)

menuDelete(c, s) ==
  closeMenu(c, IF c.contextMenu.targetNodeId # Null
               THEN removeNodes(c, s, <<c.contextMenu.targetNodeId>>)
               ELSE s)

(* field: "dashed" or "arrow" *)
menuToggleEdge(c, s, field) ==
  closeMenu(c, IF c.contextMenu.targetEdgeId # Null
               THEN [pushHistory(c, s) EXCEPT !.kind = "op2", !.edges =
                       [i \in 1..Len(@) |->
                          IF @[i].id = c.contextMenu.targetEdgeId
                          THEN IF field = "dashed" THEN [@[i] EXCEPT !.dashed = ~@]
                               ELSE [@[i] EXCEPT !.arrow = ~@]
                          ELSE @[i]]]
               ELSE s)

(* answer: <<>> (prompt cancelled) or <<text>>, text already trimmed *)
menuRenameEdge(c, s, answer) ==
  closeMenu(c, IF c.contextMenu.targetEdgeId # Null /\ answer # <<>>
               THEN [pushHistory(c, s) EXCEPT !.kind = "op2", !.edges =
                       [i \in 1..Len(@) |->
                          IF @[i].id = c.contextMenu.targetEdgeId
                          THEN [@[i] EXCEPT !.label = answer[1]]
                          ELSE @[i]]]
               ELSE s)

menuDeleteEdge(c, s) ==
  closeMenu(c, IF c.contextMenu.targetEdgeId # Null
               THEN removeEdges(c, s, <<c.contextMenu.targetEdgeId>>)
               ELSE s)

(* the rename input's onChange *)
onEditChange(c, s, v) ==
  IF c.editingId # Null
  THEN [pushHistory(c, s) EXCEPT !.nodes = relabelNodes(@, {c.editingId}, "set", v),
                                 !.kind = "op2"]
  ELSE s

(* the rename input's onBlur, Enter and Escape *)
onEditEnd(c, s) == [s EXCEPT !.editingId = Null, !.dirty = @ \/ c.editingId # Null]

(* doc: the file's text as JSON.parse reads it.  doc.parses: the text is   *)
(* JSON (of a truthy value); doc.nodesArray, doc.edgesArray: the field is  *)
(* an array; doc.pan, doc.scale: <<>> for a missing field, <<v>> for a     *)
(* field of value v; the selection fields already hold the defaults that   *)
(* ?? gives a missing one.  A missing scale is restored as undefined       *)
(* (Null).                                                                 *)
importFromText_noArrayCheck(s, doc) ==
  IF ~doc.parses THEN s
  ELSE IF doc.pan # <<>>
  THEN [restore(s, [nodes |-> doc.nodes, edges |-> doc.edges, pan |-> doc.pan[1],
                    scale |-> IF doc.scale = <<>> THEN Null ELSE doc.scale[1],
                    selectedId |-> doc.selectedId,
                    selectedIds |-> doc.selectedIds,
                    selectedEdgeIds |-> doc.selectedEdgeIds])
          EXCEPT !.imported = TRUE]
  ELSE [clearSelection([s EXCEPT !.nodes = doc.nodes, !.edges = doc.edges,
                                 !.pan = Pt(0, 0), !.scale = 1])
          EXCEPT !.imported = TRUE]
importFromText(s, doc) ==
  IF ~doc.parses THEN s
  ELSE IF ~doc.nodesArray \/ ~doc.edgesArray THEN s
  ELSE IF doc.pan # <<>>
  THEN [restore(s, [nodes |-> doc.nodes, edges |-> doc.edges, pan |-> doc.pan[1],
                    scale |-> IF doc.scale = <<>> THEN Null ELSE doc.scale[1],
                    selectedId |-> doc.selectedId,
                    selectedIds |-> doc.selectedIds,
                    selectedEdgeIds |-> doc.selectedEdgeIds])
          EXCEPT !.imported = TRUE]
  ELSE [clearSelection([s EXCEPT !.nodes = doc.nodes, !.edges = doc.edges,
                                 !.pan = Pt(0, 0), !.scale = 1])
          EXCEPT !.imported = TRUE]

(***************************************************************************)
(* Bounds and inputs.                                                      *)
(***************************************************************************)
MaxSteps == 4
MaxEditSteps == 5

(* typed characters *)
Alphabet == {"a", " "}
(* world points the pointer visits besides the centres of the nodes *)
FixedPoints == {Pt(160, 0), Pt(300, 200)}
(* scale * factor requested by a zoom wheel event, before clamping *)
ZoomTargets == {2, 4}
(* deltaX, deltaY of a shift-wheel event *)
WheelDeltas == {Pt(0, 100)}
(* what a user types into the rename input or the edge-label prompt *)
TypedLabels == {<<"a">>}

startNode ==
  [id |-> 1, label |-> <<"S", "t", "a", "r", "t">>, x |-> 0, y |-> 0, w |-> BASE_W,
   h |-> BASE_H, strokeColor |-> "#333", fillColor |-> "none", bold |-> FALSE]

(* files offered to the import: text that is not JSON, {nodes: [],         *)
(* edges: "x"}, a file whose nodes field is not an array, a legacy         *)
(* {nodes, edges} file, an exported snapshot, a snapshot edited by hand    *)
(* whose selection fields disagree, and one with pan but without scale     *)
ImportDocs ==
  LET child == newNode(2, 160, 0, "#333", "none")
      link == newEdge(1, 1, 2, FALSE)
      base == [parses |-> TRUE, nodesArray |-> TRUE, edgesArray |-> TRUE,
               nodes |-> <<startNode, child>>, edges |-> <<link>>,
               pan |-> <<Pt(420, 300)>>, scale |-> <<2>>, selectedId |-> 2,
               selectedIds |-> <<2>>, selectedEdgeIds |-> {}]
  IN  { [base EXCEPT !.parses = FALSE],
        [base EXCEPT !.edgesArray = FALSE, !.nodes = <<>>, !.edges = <<>>,
                     !.pan = <<>>, !.scale = <<>>, !.selectedId = Null,
                     !.selectedIds = <<>>],
        [base EXCEPT !.nodesArray = FALSE, !.nodes = <<>>],
        [base EXCEPT !.pan = <<>>, !.scale = <<>>],
        base,
        [base EXCEPT !.selectedId = Null, !.selectedIds = <<1>>,
                     !.selectedEdgeIds = {1}],
        [base EXCEPT !.scale = <<>>] }

nodePoints(ns) == {Pt(ns[i].x, ns[i].y) : i \in 1..Len(ns)}
PointerTargets == nodePoints(nodes) \cup FixedPoints

(* the node drawn last among those that contain the point *)
topNodeAt(ns, x, y) ==
  LET hits == {i \in 1..Len(ns) : isPointInNode(ns[i], x, y)}
  IN  IF hits = {} THEN Null ELSE ns[CHOOSE i \in hits : \A j \in hits : j <= i].id

(* an edge is drawn when both of its ends are *)
renderedEdges ==
  {edges[i].id : i \in {j \in 1..Len(edges) :
                          hasId(nodes, edges[j].source) /\ hasId(nodes, edges[j].target)}}

gestureActive ==
  \/ marquee.active \/ linking.phase # "idle" \/ draggingNodeId # Null
  \/ groupDragging \/ panning \/ somethingMoved

(***************************************************************************)
(* History variables.                                                      *)
(***************************************************************************)
freshRound(core) ==
  [phase |-> "edit", n |-> 0, u |-> 0, r |-> 0, base |-> core, fin |-> core]

(* n operations (kind "op": adding, removing, shift-click toggle, linking,  *)
(* a finished drag, typing, backspace, bold, paste), then u undos, then r  *)
(* redos; base is the document, selection and camera before the first      *)
(* operation, fin the same before the first undo.  A gesture in progress   *)
(* (kind "part") belongs to the operation that ends it.  Anything else     *)
(* that changes them, or pushes history (kind "op2"), starts a new round.  *)
rtNext(kind, before, after) ==
  IF kind = "op"
  THEN IF rt.phase = "edit" THEN [rt EXCEPT !.n = @ + 1] ELSE freshRound(after)
  ELSE IF kind \in {"undo", "undoEmpty"}
  THEN IF rt.phase = "edit" /\ rt.n > 0
       THEN [rt EXCEPT !.phase = "undo", !.u = 1, !.fin = before]
       ELSE IF rt.phase = "undo" /\ rt.u < rt.n THEN [rt EXCEPT !.u = @ + 1]
       ELSE freshRound(after)
  ELSE IF kind \in {"redo", "redoEmpty"}
  THEN IF rt.phase = "undo" /\ rt.u = rt.n THEN [rt EXCEPT !.phase = "redo", !.r = 1]
       ELSE IF rt.phase = "redo" /\ rt.r < rt.n THEN [rt EXCEPT !.r = @ + 1]
       ELSE freshRound(after)
  ELSE IF kind = "part" THEN rt
  ELSE IF kind # "op2" /\ before = after THEN rt
  ELSE freshRound(after)

(* A drag gesture: a pointer-down on a node that reaches the drag set-up of *)
(* onPointerDownNode, then pointer moves only, then the pointer-up.  on:   *)
(* the gesture is in progress; done: the last event was its pointer-up;    *)
(* moves: its pointer moves so far; undoLen, start: the length of the undo *)
(* stack and the nodes at its pointer-down.                                *)
noDrag == [on |-> FALSE, done |-> FALSE, moves |-> 0, undoLen |-> 0, start |-> <<>>]

dragNext(op, t) ==
  IF t.kind \in {"crash", "hang"} THEN noDrag
  ELSE IF /\ op = "PointerDownNode" /\ t.mod = "none"
          /\ editingId = Null /\ linking.phase = "idle"
  THEN [on |-> TRUE, done |-> FALSE, moves |-> 0, undoLen |-> Len(undoStack),
        start |-> nodes]
  ELSE IF op = "PointerMove" /\ drag.on THEN [drag EXCEPT !.moves = @ + 1]
  ELSE IF op = "PointerUp" /\ drag.on THEN [drag EXCEPT !.on = FALSE, !.done = TRUE]
  ELSE noDrag

(***************************************************************************)
(* One event: the state after the handler becomes the next state, and the  *)
(* keydown effect re-registers when one of its dependencies was set.       *)
(***************************************************************************)
Commit(op, t) ==
  LET dead == t.kind \in {"crash", "hang"}
      s == IF dead THEN State ELSE t
  IN  /\ nodes' = s.nodes
      /\ edges' = s.edges
      /\ selectedId' = s.selectedId
      /\ selectedIds' = s.selectedIds
      /\ selectedEdgeIds' = s.selectedEdgeIds
      /\ clipboard' = s.clipboard
      /\ pan' = s.pan
      /\ scale' = s.scale
      /\ kb' = IF s.dirty
               THEN [nodes |-> s.nodes, edges |-> s.edges, pan |-> s.pan, scale |-> s.scale]
               ELSE kb
      /\ undoStack' = s.undoStack
      /\ redoStack' = s.redoStack
      /\ linking' = s.linking
      /\ marquee' = s.marquee
      /\ draggingNodeId' = s.draggingNodeId
      /\ dragOffset' = s.dragOffset
      /\ somethingMoved' = s.somethingMoved
      /\ groupDragging' = s.groupDragging
      /\ groupStart' = s.groupStart
      /\ groupStartPositions' = s.groupStartPositions
      /\ panning' = s.panning
      /\ panStart' = s.panStart
      /\ panAtStart' = s.panAtStart
      /\ editingId' = s.editingId
      /\ freshTyping' = s.freshTyping
      /\ shiftTabPath' = s.shiftTabPath
      /\ shiftTabIndex' = s.shiftTabIndex
      /\ prevSelectedId' = s.prevSelectedId
      /\ contextMenu' = s.contextMenu
      /\ timers' = s.timers
      /\ clock' = s.clock
      /\ pointerDown' = s.pointerDown
      /\ crashed' = dead
      /\ imported' = s.imported
      /\ rt' = rtNext(t.kind, snapshot(State), snapshot(s))
      /\ last' = [op |-> op, kind |-> t.kind, pushed |-> t.pushed, ids |-> t.ids,
                  eids |-> t.eids, doc |-> t.doc, ret |-> t.ret, arg |-> t.arg,
                  mod |-> t.mod, at |-> t.at, probes |-> t.probes,
                  redoWas |-> Len(redoStack),
                  linkWas |-> linking]
      /\ drag' = dragNext(op, t)
      /\ steps' = IF op = "Timer" THEN steps ELSE steps + 1
      /\ stepLimit' = stepLimit
      /\ probe' = probe

(* a user event is handled: the page is alive and no 0 ms timer is waiting *)
(* (it runs before the next input event)                                   *)
Alive == ~crashed /\ timers = <<>> /\ steps < stepLimit
(* ... and the canvas is drawn: with a scale that is not a number the      *)
(* transform of the canvas is invalid and every coordinate the handlers    *)
(* compute is NaN; the model follows the page again from the next import   *)
(* or reload                                                               *)
Ready == Alive /\ scale # Null
Does(t) == t # State

(***************************************************************************)
(* Initial state: the first mount, nothing in localStorage.                *)
(***************************************************************************)
(* ns, es: the document of the first render the handlers are taken from *)
MountedDoc(ns, es) ==
  /\ nodes = ns
  /\ edges = es
  /\ selectedId = 1
  /\ selectedIds = <<1>>
  /\ selectedEdgeIds = {}
  /\ clipboard = <<>>
  /\ pan = Pt(ViewRect.width \div 2, ViewRect.height \div 2)
  /\ scale = 1
  /\ kb = [nodes |-> ns, edges |-> es,
           pan |-> Pt(ViewRect.width \div 2, ViewRect.height \div 2), scale |-> 1]
  /\ undoStack = <<>>
  /\ redoStack = <<>>
  /\ linking = idleLinking
  /\ marquee = noMarquee
  /\ draggingNodeId = Null
  /\ dragOffset = [dx |-> 0, dy |-> 0]
  /\ somethingMoved = FALSE
  /\ groupDragging = FALSE
  /\ groupStart = Pt(0, 0)
  /\ groupStartPositions = <<>>
  /\ panning = FALSE
  /\ panStart = Pt(0, 0)
  /\ panAtStart = Pt(0, 0)
  /\ editingId = Null
  /\ freshTyping = TRUE
  /\ shiftTabPath = <<>>
  /\ shiftTabIndex = 0
  /\ prevSelectedId = Null
  /\ contextMenu = closedMenu
  /\ timers = <<>>
  /\ clock = 10
  /\ pointerDown = FALSE
  /\ crashed = FALSE
  /\ imported = FALSE
  /\ rt = freshRound([nodes |-> ns, edges |-> es,
                      pan |-> Pt(ViewRect.width \div 2, ViewRect.height \div 2),
                      scale |-> 1, selectedId |-> 1, selectedIds |-> <<1>>,
                      selectedEdgeIds |-> {}])
  /\ last = [op |-> "mount", kind |-> "other", pushed |-> 0, ids |-> {}, eids |-> {},
             doc |-> <<>>, ret |-> Null, arg |-> Null, mod |-> "none", at |-> <<>>,
             probes |-> 0, redoWas |-> 0, linkWas |-> idleLinking]
  /\ drag = noDrag
  /\ steps = 0

(* root: the node the document starts with *)
MountedWith(root) == MountedDoc(<<root>>, <<>>)

Mounted == MountedWith(startNode)

(* no pure function is called on its own while the editor runs *)
noProbe ==
  [fn |-> "none", label |-> <<>>, font |-> 0, minW |-> 0, w |-> 0, h |-> 0, ns |-> <<>>,
   es |-> <<>>, x |-> 0, y |-> 0, done |-> FALSE, out |-> <<>>]

Init == Mounted /\ stepLimit = MaxSteps /\ probe = noProbe

(***************************************************************************)
(* Events.                                                                 *)
(***************************************************************************)
PointerDownNode ==
  /\ Ready /\ ~pointerDown
  /\ \E i \in 1..Len(nodes), mod \in {"none", "shift", "ctrl"} :
       LET n == nodes[i]
           w == Pt(n.x, n.y)
           c == LiveClosure
           s0 == [State EXCEPT !.pointerDown = TRUE]
           s1 == onPointerDownNode(c, s0, n.id, w, mod)
           s2 == IF nodeDownStops(c, mod) THEN s1 ELSE onPointerDownSvg(c, s1, w)
       IN  /\ topNodeAt(nodes, n.x, n.y) = n.id
           /\ Commit("PointerDownNode", [s2 EXCEPT !.arg = n.id, !.mod = mod])

PointerDownBg ==
  /\ Ready /\ ~pointerDown
  /\ \E w \in FixedPoints, shift \in BOOLEAN :
       LET c == LiveClosure
           s0 == [State EXCEPT !.pointerDown = TRUE]
       IN  /\ topNodeAt(nodes, w.x, w.y) = Null
           /\ Commit("PointerDownBg", onPointerDownSvg(c, onPointerDownBg(c, s0, w, shift), w))

PointerDownEdge ==
  /\ Ready /\ ~pointerDown
  /\ \E e \in renderedEdges, shift \in BOOLEAN :
       Commit("PointerDownEdge",
              onEdgePointerDown([State EXCEPT !.pointerDown = TRUE, !.arg = e], e, shift))

PointerMove ==
  /\ Ready /\ (pointerDown \/ gestureActive)
  /\ \E w \in PointerTargets :
       LET t == onPointerMoveSvg(LiveClosure, State, w)
       IN  Does(t) /\ Commit("PointerMove", t)

(* releasing the button: pointerup, then the click that closes an open menu *)
PointerUp ==
  /\ Ready /\ pointerDown
  /\ LET s1 == onPointerUpSvg(LiveClosure, [State EXCEPT !.pointerDown = FALSE])
         s2 == IF contextMenu.open THEN closeMenu(LiveClosure, s1) ELSE s1
     IN  Commit("PointerUp", s2)

(* the pointer leaves the canvas without a button held *)
PointerLeave ==
  /\ Ready /\ ~pointerDown /\ gestureActive
  /\ Commit("PointerLeave", onPointerUpSvg(LiveClosure, State))

PointerCancel ==
  /\ Ready /\ pointerDown
  /\ Commit("PointerCancel", onPointerCancelSvg([State EXCEPT !.pointerDown = FALSE]))

WheelZoom ==
  /\ Ready
  /\ \E w \in {Pt(160, 0)}, target \in ZoomTargets :
       LET t == onWheelSvg(LiveClosure, State, w, target, FALSE, Pt(0, 0))
       IN  Does(t) /\ Commit("WheelZoom", t)

WheelPan ==
  /\ Ready
  /\ \E delta \in WheelDeltas :
       Commit("WheelPan", onWheelSvg(LiveClosure, State, Pt(0, 0), scale, TRUE, delta))

KeyDown ==
  /\ Ready
  /\ \E key \in Keys, char \in Alphabet :
       LET t == handler(KeyClosure, State, key, char)
       IN  /\ key # "char" => char = "a"
           /\ Does(t)
           /\ Commit(key, t)

ContextMenuNode ==
  /\ Ready /\ ~pointerDown
  /\ \E i \in 1..Len(nodes) :
       /\ topNodeAt(nodes, nodes[i].x, nodes[i].y) = nodes[i].id
       /\ Commit("ContextMenuNode", onContextMenuNode(LiveClosure, State, nodes[i].id))

ContextMenuBg ==
  /\ Ready /\ ~pointerDown
  /\ \E w \in FixedPoints :
       /\ topNodeAt(nodes, w.x, w.y) = Null
       /\ Commit("ContextMenuBg", onContextMenuBg(State, w))

ContextMenuEdge ==
  /\ Ready /\ ~pointerDown
  /\ \E e \in renderedEdges : Commit("ContextMenuEdge", onContextMenuEdge(State, e))

MenuReady(kind) == Ready /\ ~pointerDown /\ contextMenu.open /\ contextMenu.kind = kind

MenuNewNode == MenuReady("bg") /\ Commit("MenuNewNode", menuNewNode(LiveClosure, State))
MenuRename == MenuReady("node") /\ Commit("MenuRename", menuRename(LiveClosure, State))
MenuChild == MenuReady("node") /\ Commit("MenuChild", menuChild(LiveClosure, State))
MenuHighlight ==
  MenuReady("node") /\ Commit("MenuHighlight", menuHighlight(LiveClosure, State))
MenuDelete == MenuReady("node") /\ Commit("MenuDelete", menuDelete(LiveClosure, State))
MenuToggleEdge ==
  /\ MenuReady("edge")
  /\ \E field \in {"dashed", "arrow"} :
       Commit("MenuToggleEdge", menuToggleEdge(LiveClosure, State, field))
MenuRenameEdge ==
  /\ MenuReady("edge")
  /\ \E answer \in {<<>>} \cup {<<v>> : v \in TypedLabels} :
       Commit("MenuRenameEdge", menuRenameEdge(LiveClosure, State, answer))
MenuDeleteEdge ==
  MenuReady("edge") /\ Commit("MenuDeleteEdge", menuDeleteEdge(LiveClosure, State))

EditChange ==
  /\ Ready /\ editingId # Null
  /\ \E v \in TypedLabels : Commit("EditChange", onEditChange(LiveClosure, State, v))

EditEnd ==
  /\ Ready /\ editingId # Null
  /\ Commit("EditEnd", onEditEnd(LiveClosure, State))

Import ==
  /\ Alive /\ ~pointerDown
  /\ \E doc \in ImportDocs :
       Commit("Import", [importFromText(State, doc) EXCEPT !.doc = <<doc>>])

(* the oldest pending setTimeout callback runs *)
Timer ==
  /\ ~crashed /\ timers # <<>>
  /\ LET t == Head(timers)
         c == [pan |-> t.pan, scale |-> t.scale]
     IN  Commit("Timer", bringBoxIntoView(c, [State EXCEPT !.timers = Tail(@)],
                                          t.x, t.y, BASE_W, BASE_H))

(* the page is loaded again: every useState and useRef starts over, then   *)
(* the load effect puts the stored nodes and edges in place; the keydown   *)
(* handler stays the one of the first render                               *)
Reload ==
  /\ steps < stepLimit /\ ~pointerDown /\ steps > 0
  /\ nodes' = nodes
  /\ edges' = edges
  /\ selectedId' = 1
  /\ selectedIds' = <<1>>
  /\ selectedEdgeIds' = {}
  /\ clipboard' = <<>>
  /\ pan' = Pt(ViewRect.width \div 2, ViewRect.height \div 2)
  /\ scale' = 1
  /\ kb' = [nodes |-> <<startNode>>, edges |-> <<>>,
            pan |-> Pt(ViewRect.width \div 2, ViewRect.height \div 2), scale |-> 1]
  /\ undoStack' = <<>>
  /\ redoStack' = <<>>
  /\ linking' = idleLinking
  /\ marquee' = noMarquee
  /\ draggingNodeId' = Null
  /\ dragOffset' = [dx |-> 0, dy |-> 0]
  /\ somethingMoved' = FALSE
  /\ groupDragging' = FALSE
  /\ groupStart' = Pt(0, 0)
  /\ groupStartPositions' = <<>>
  /\ panning' = FALSE
  /\ panStart' = Pt(0, 0)
  /\ panAtStart' = Pt(0, 0)
  /\ editingId' = Null
  /\ freshTyping' = TRUE
  /\ shiftTabPath' = <<>>
  /\ shiftTabIndex' = 0
  /\ prevSelectedId' = Null
  /\ contextMenu' = closedMenu
  /\ timers' = <<>>
  /\ clock' = clock + 1
  /\ pointerDown' = FALSE
  /\ crashed' = FALSE
  /\ imported' = imported
  /\ rt' = freshRound([nodes |-> nodes, edges |-> edges,
                       pan |-> Pt(ViewRect.width \div 2, ViewRect.height \div 2),
                       scale |-> 1, selectedId |-> 1, selectedIds |-> <<1>>,
                       selectedEdgeIds |-> {}])
  /\ last' = [op |-> "Reload", kind |-> "other", pushed |-> 0, ids |-> {},
              eids |-> {}, doc |-> <<>>, ret |-> Null,
              arg |-> Null, mod |-> "none", at |-> <<>>, probes |-> 0,
              redoWas |-> 0, linkWas |-> idleLinking]
  /\ drag' = noDrag
  /\ steps' = steps + 1
  /\ stepLimit' = stepLimit
  /\ probe' = probe

Next ==
  \/ PointerDownNode \/ PointerDownBg \/ PointerDownEdge
  \/ PointerMove \/ PointerUp \/ PointerLeave \/ PointerCancel
  \/ WheelZoom \/ WheelPan
  \/ KeyDown
  \/ ContextMenuNode \/ ContextMenuBg \/ ContextMenuEdge
  \/ MenuNewNode \/ MenuRename \/ MenuChild \/ MenuHighlight \/ MenuDelete
  \/ MenuToggleEdge \/ MenuRenameEdge \/ MenuDeleteEdge
  \/ EditChange \/ EditEnd
  \/ Import
  \/ Timer
  \/ Reload

Spec == Init /\ [][Next]_vars

(* Editing only, from the initial document: pointer gestures on nodes and  *)
(* edges, the keyboard, and the timers they start.                         *)
InitEdit == Mounted /\ stepLimit = MaxEditSteps /\ probe = noProbe
NextEdit ==
  \/ PointerDownNode \/ PointerDownEdge \/ PointerMove \/ PointerUp
  \/ KeyDown
  \/ Timer
SpecEdit == InitEdit /\ [][NextEdit]_vars

(***************************************************************************)
(* The pure functions on their own: layoutLabel, resizeNodeForLabel and    *)
(* isPositionFree applied once to arguments drawn from the sets below.     *)
(***************************************************************************)
(* words in a generated label *)
MaxWords == 4
(* characters in a word *)
WordSizes == {1, 4, 7}
Fonts == 12..20
MinWidths == {0, 120, 200}
(* node heights; the font of a node is clamp(round(0.35 * h), 12, 20) *)
NodeHeights == {34, 40, 64}
(* node widths: the base width and the widths of nodes whose label was wider *)
NodeWidths == {120, 128, 200}
(* points asked of isPositionFree *)
GridXs == {-160, -80, 0, 80, 160, 240, 320}
GridYs == {-120, -60, 0, 60, 120}

wordOf(n) == [i \in 1..n |-> "a"]
RECURSIVE labelOf(_)
(* the words of the given sizes, joined by single spaces *)
labelOf(sizes) ==
  IF sizes = <<>> THEN <<>>
  ELSE IF Len(sizes) = 1 THEN wordOf(sizes[1])
  ELSE wordOf(sizes[1]) \o <<" ">> \o labelOf(Tail(sizes))

(* besides the generated labels: blank ones, one with runs of spaces, and  *)
(* "a b c d e f g h i j"                                                   *)
LayoutLabels ==
  {labelOf(sizes) : sizes \in UNION {[1..n -> WordSizes] : n \in 0..MaxWords}}
    \cup {<<" ">>, <<" ", " ", "a", " ", " ", "a", " ">>,
          labelOf([i \in 1..10 |-> 1])}

(* node and edge arrangements asked of isPositionFree *)
Arrangements ==
  LET child == newNode(2, 160, 0, "#333", "none")
      wide == [newNode(2, 160, 60, "#333", "none") EXCEPT !.w = 200]
  IN  { [ns |-> <<>>, es |-> <<>>],
        [ns |-> <<startNode>>, es |-> <<>>],
        [ns |-> <<startNode, wide>>, es |-> <<>>],
        [ns |-> <<startNode, child>>, es |-> <<newEdge(1, 1, 2, FALSE)>>] }

LayoutProbes ==
  {[noProbe EXCEPT !.fn = "layoutLabel", !.label = l, !.font = f, !.minW = m] :
     l \in LayoutLabels, f \in Fonts, m \in MinWidths}
ResizeProbes ==
  {[noProbe EXCEPT !.fn = "resizeNodeForLabel", !.label = l, !.w = w, !.h = h] :
     l \in LayoutLabels, w \in NodeWidths, h \in NodeHeights}
PlaceProbes ==
  {[noProbe EXCEPT !.fn = "isPositionFree", !.ns = a.ns, !.es = a.es, !.x = x, !.y = y] :
     a \in Arrangements, x \in GridXs, y \in GridYs}

InitProbe ==
  /\ Mounted /\ stepLimit = 0
  /\ probe \in LayoutProbes \cup ResizeProbes \cup PlaceProbes

(* L = layoutLabel(label, baseFont, minW) *)
ApplyLayout ==
  /\ probe.fn = "layoutLabel" /\ ~probe.done
  /\ probe' = [probe EXCEPT !.done = TRUE,
                             !.out = <<layoutLabel(probe.label, probe.font, probe.minW)>>]
  /\ UNCHANGED editorVars

(* resizeNodeForLabel({...n, label}) for a node n of width w and height h *)
ApplyResize ==
  /\ probe.fn = "resizeNodeForLabel" /\ ~probe.done
  /\ probe' = [probe EXCEPT !.done = TRUE,
                  !.out = <<resizeNodeForLabel([startNode EXCEPT !.label = probe.label,
                                                                !.w = probe.w,
                                                                !.h = probe.h])>>]
  /\ UNCHANGED editorVars

(* isPositionFree(x, y) holds, and a node of base size is put at (x, y) *)
PlaceNode ==
  /\ probe.fn = "isPositionFree" /\ ~probe.done
  /\ isPositionFree(probe.ns, probe.es, probe.x, probe.y, Null)
  /\ probe' = [probe EXCEPT !.done = TRUE,
                  !.ns = Append(@, newNode(nextNodeId(@), probe.x, probe.y,
                                           "#333", "none"))]
  /\ UNCHANGED editorVars

NextProbe == ApplyLayout \/ ApplyResize \/ PlaceNode
SpecProbe == InitProbe /\ [][NextProbe]_vars

(***************************************************************************)
(* addChild called again and again on one parent that stands alone.        *)
(***************************************************************************)
MaxChildren == 7
ParentSpots == {Pt(x, y) : x \in {-200, 0, 200}, y \in {-100, 0, 100}}

InitChildren ==
  /\ \E p \in ParentSpots : MountedWith([startNode EXCEPT !.x = p.x, !.y = p.y])
  /\ stepLimit = MaxChildren
  /\ probe = noProbe

(* addChild(1) *)
AddChildAgain == Alive /\ Commit("addChild", addChild(LiveClosure, State, 1))

NextChildren == AddChildAgain \/ Timer
SpecChildren == InitChildren /\ [][NextChildren]_vars

(***************************************************************************)
(* addStandalone on a document of two nodes: the start node at the centre  *)
(* of the view and a second node further down the diagonal, linked to the  *)
(* first or not.                                                           *)
(***************************************************************************)
MaxSpan == 7
MaxPlacements == 2
FarSpots == {Pt(400 * d, 400 * d) : d \in 1..MaxSpan}
StandalonePoints == {Pt(0, 0), Pt(100, 0), Pt(300, -200)}

InitStandalone ==
  /\ \E far \in FarSpots, linked \in BOOLEAN :
       MountedDoc(<<startNode, newNode(2, far.x, far.y, "#333", "none")>>,
                  IF linked THEN <<newEdge(5, 1, 2, FALSE)>> ELSE <<>>)
  /\ stepLimit = MaxPlacements
  /\ probe = noProbe

(* addStandalone({ x, y }): the menu item "New Node" *)
AddStandaloneAt ==
  /\ Alive
  /\ \E at \in StandalonePoints :
       Commit("addStandaloneAt", addStandalone(LiveClosure, State, <<at>>))

(* addStandalone(): Shift+Enter on a node without a parent *)
AddStandaloneCentre ==
  Alive /\ Commit("addStandalone", addStandalone(LiveClosure, State, <<>>))

NextStandalone == AddStandaloneAt \/ AddStandaloneCentre \/ Timer
SpecStandalone == InitStandalone /\ [][NextStandalone]_vars

(***************************************************************************)
(* Pointer gestures and Ctrl+Z on a document of three nodes: the start     *)
(* node, a child of it, and a node linked to neither.                      *)
(***************************************************************************)
MaxGestureSteps == 6
gestureNodes ==
  <<startNode, newNode(2, 160, 0, "#333", "none"), newNode(3, 0, 200, "#333", "none")>>

InitGesture ==
  /\ MountedDoc(gestureNodes, <<newEdge(5, 1, 2, FALSE)>>)
  /\ stepLimit = MaxGestureSteps
  /\ probe = noProbe

(* Ctrl+Z *)
KeyUndo ==
  /\ Ready
  /\ LET t == handler(KeyClosure, State, "undo", "a")
     IN  Does(t) /\ Commit("undo", t)

NextGesture ==
  \/ PointerDownNode \/ PointerDownBg \/ PointerMove \/ PointerUp
  \/ PointerLeave \/ PointerCancel
  \/ KeyUndo
SpecGesture == InitGesture /\ [][NextGesture]_vars

(***************************************************************************)
(* The operations that add or remove edges, from the initial document:     *)
(* addChild (Enter), linking gestures and shift-click toggles, copy and    *)
(* paste, Delete, undo and redo.                                           *)
(***************************************************************************)
MaxGraphSteps == 6
GraphKeys == {"undo", "redo", "copy", "paste", "Delete", "Enter"}

InitGraph == Mounted /\ stepLimit = MaxGraphSteps /\ probe = noProbe

KeyGraph ==
  /\ Ready
  /\ \E key \in GraphKeys :
       LET t == handler(KeyClosure, State, key, "a")
       IN  Does(t) /\ Commit(key, t)

NextGraph == PointerDownNode \/ PointerMove \/ PointerUp \/ KeyGraph \/ Timer
SpecGraph == InitGraph /\ [][NextGraph]_vars

(***************************************************************************)
(* Hierarchy navigation on a chain 1 -> 2 -> 3: selecting nodes, shift-    *)
(* clicks and linking gestures that add or remove edges, Shift+Tab and     *)
(* Tab.                                                                    *)
(***************************************************************************)
MaxTreeSteps == 5
chainNodes ==
  <<startNode, newNode(2, 160, 0, "#333", "none"), newNode(3, 320, 0, "#333", "none")>>

InitTree ==
  /\ MountedDoc(chainNodes, <<newEdge(5, 1, 2, FALSE), newEdge(6, 2, 3, FALSE)>>)
  /\ stepLimit = MaxTreeSteps
  /\ probe = noProbe

KeyTree ==
  /\ Ready
  /\ \E key \in {"ShiftTab", "Tab"} :
       LET t == handler(KeyClosure, State, key, "a")
       IN  Does(t) /\ Commit(key, t)

NextTree == PointerDownNode \/ PointerUp \/ KeyTree
SpecTree == InitTree /\ [][NextTree]_vars

(***************************************************************************)
(* Arrow-key navigation over documents whose nodes lie at drawn places:    *)
(* node 1 at the origin and nodes 2, 3, 4 at three different NavSpots.     *)
(* Three of the spots lie at 577.2486, 577.2495 and 577.2504 from the      *)
(* origin, inside the 30 degree cone to the right.                         *)
(***************************************************************************)
MaxNavSteps == 3
NavSpots ==
  {Pt(540, 204), Pt(559, 144), Pt(577, 17), Pt(160, 0), Pt(100, 100),
   Pt(40, 150), Pt(-160, 0)}
ArrowKeys == {"ArrowUp", "ArrowDown", "ArrowLeft", "ArrowRight"}

navNodes(a, b, c) ==
  <<startNode, newNode(2, a.x, a.y, "#333", "none"), newNode(3, b.x, b.y, "#333", "none"),
    newNode(4, c.x, c.y, "#333", "none")>>

InitNav ==
  /\ \E a \in NavSpots, b \in NavSpots, c \in NavSpots :
       /\ Cardinality({a, b, c}) = 3
       /\ MountedDoc(navNodes(a, b, c), <<>>)
  /\ stepLimit = MaxNavSteps
  /\ probe = noProbe

KeyNav ==
  /\ Ready
  /\ \E key \in ArrowKeys :
       LET t == handler(KeyClosure, State, key, "a")
       IN  Does(t) /\ Commit(key, t)

NextNav == PointerDownNode \/ PointerUp \/ KeyNav
SpecNav == InitNav /\ [][NextNav]_vars

(***************************************************************************)
(* The editing operations alone: every handler of the editor, without      *)
(* the import of a file and without a reload of the page.                  *)
(***************************************************************************)
MaxSelectSteps == 4
InitSelect == Mounted /\ stepLimit = MaxSelectSteps /\ probe = noProbe
NextSelect ==
  \/ PointerDownNode \/ PointerDownBg \/ PointerDownEdge
  \/ PointerMove \/ PointerUp \/ PointerLeave \/ PointerCancel
  \/ WheelZoom \/ WheelPan
  \/ KeyDown
  \/ ContextMenuNode \/ ContextMenuBg \/ ContextMenuEdge
  \/ MenuNewNode \/ MenuRename \/ MenuChild \/ MenuHighlight \/ MenuDelete
  \/ MenuToggleEdge \/ MenuRenameEdge \/ MenuDeleteEdge
  \/ EditChange \/ EditEnd
  \/ Timer
SpecSelect == InitSelect /\ [][NextSelect]_vars

(***************************************************************************)
(* Properties.                                                             *)
(***************************************************************************)
Live == snapshot(State)

sameCore(a, b) ==
  /\ a.nodes = b.nodes /\ a.edges = b.edges
  /\ a.pan = b.pan /\ a.scale = b.scale
  /\ a.selectedId = b.selectedId
  /\ SeqToSet(a.selectedIds) = SeqToSet(b.selectedIds)
  /\ a.selectedEdgeIds = b.selectedEdgeIds

(* C1: after N undo-wrapped operations and then N undos, nodes, edges,     *)
(* selectedId, selectedIds, selectedEdgeIds, pan and scale are what they   *)
(* were before the first operation.                                        *)
C1_UndoRoundTrip ==
  (rt.phase = "undo" /\ rt.u = rt.n) => sameCore(Live, rt.base)

(* C2: after N operations, N undos and then N redos, nodes, edges,         *)
(* selection and camera are what they were just before the first undo.     *)
C2_RedoRoundTrip ==
  (rt.phase = "redo" /\ rt.r = rt.n) => sameCore(Live, rt.fin)

(* C3: a handler that called pushHistory() leaves the redo stack empty,    *)
(* and a redo right after it changes nothing.                              *)
C3_PushClearsRedo ==
  [][ /\ (last'.pushed > 0 => redoStack' = <<>>)
      /\ ((last.pushed > 0 /\ last'.op = "redo")
            => Live' = Live /\ undoStack' = undoStack /\ redoStack' = redoStack) ]_vars

(* C3 witness: an operation pushed history while the redo stack held an    *)
(* undone state.                                                           *)
C3_Witness == last.pushed > 0 /\ last.redoWas > 0 /\ redoStack = <<>>

(* C4: undo with an empty undo stack and redo with an empty redo stack     *)
(* change neither nodes, edges, selection, camera nor the two stacks.      *)
C4_EmptyStackNoOp ==
  [][ ((last'.op = "undo" /\ undoStack = <<>>) \/ (last'.op = "redo" /\ redoStack = <<>>))
        => Live' = Live /\ undoStack' = undoStack /\ redoStack' = redoStack ]_vars

(* C4 witness: undo was pressed on an empty undo stack after an edit had   *)
(* been undone (so the redo stack is not empty).                           *)
C4_Witness == last.op = "undo" /\ last.kind = "undoEmpty" /\ redoStack # <<>>

(* C5: after removeNodes(ids) no node has an id in ids, no edge touches an *)
(* id in ids, and the other nodes and edges are kept as they were.         *)
C5_RemoveNodesCascade ==
  [][ last'.ids # {} =>
        /\ nodes' = FilterSeq(nodes, {n \in SeqToSet(nodes) : n.id \notin last'.ids})
        /\ edges' = FilterSeq(edges, {e \in SeqToSet(edges) :
                                        e.source \notin last'.ids /\ e.target \notin last'.ids})
        /\ \A i \in 1..Len(nodes') : nodes'[i].id \notin last'.ids
        /\ \A i \in 1..Len(edges') :
             edges'[i].source \notin last'.ids /\ edges'[i].target \notin last'.ids ]_vars

(* C5 witness: removeNodes ran on a node that had an edge (the snapshot    *)
(* pushed by it still shows the edge), and some node is left.              *)
C5_Witness ==
  /\ last.ids # {} /\ undoStack # <<>> /\ nodes # <<>>
  /\ \E i \in 1..Len(Last(undoStack).edges) :
       Last(undoStack).edges[i].target \in last.ids

(* C6: editing the initial document (adding, removing, linking, shift-     *)
(* click toggles, copy and paste, undo, redo) never leaves an edge whose   *)
(* source or target is not the id of a node.                               *)
C6_NoDanglingEdge ==
  \A i \in 1..Len(edges) : hasId(nodes, edges[i].source) /\ hasId(nodes, edges[i].target)

(* C7: selectedIds and selectedEdgeIds are never both non-empty.           *)
C7_SelectionExclusive == ~(selectedIds # <<>> /\ selectedEdgeIds # {})

(* C8: selectedId is null exactly when selectedIds is empty, and otherwise *)
(* selectedId is a member of selectedIds.                                  *)
C8_PrimaryConsistent ==
  /\ (selectedId = Null) <=> (selectedIds = <<>>)
  /\ selectedId # Null => selectedId \in SeqToSet(selectedIds)

(* C9: node ids are pairwise distinct and greater than 0, also when a node *)
(* is created from the keyboard after the document was loaded from        *)
(* storage.                                                                *)
C9_UniqueNodeIds ==
  /\ \A i, j \in 1..Len(nodes) : i # j => nodes[i].id # nodes[j].id
  /\ \A i \in 1..Len(nodes) : nodes[i].id > 0

(* C10: removeNodes(ids) with exactly one id whose parent (the source of   *)
(* the first edge into it) exists and is not removed selects that parent   *)
(* alone; in every other case it clears the selection.                     *)
C10_RemoveSelectsParent ==
  [][ last'.ids # {} =>
        LET parent == IF Cardinality(last'.ids) = 1
                      THEN getParentId(edges, CHOOSE id \in last'.ids : TRUE)
                      ELSE Null
        IN  IF parent # Null /\ parent \notin last'.ids /\ hasId(nodes, parent)
            THEN selectedId' = parent /\ selectedIds' = <<parent>> /\ selectedEdgeIds' = {}
            ELSE selectedId' = Null /\ selectedIds' = <<>> /\ selectedEdgeIds' = {} ]_vars

(* C11: removeNodes or removeEdges called with a non-empty list of ids     *)
(* none of which exists changes nothing: nodes, edges, selectedId,         *)
(* selectedIds, selectedEdgeIds and both history stacks stay as they were. *)
C11_RemoveUnknownNoOp ==
  [][ \/ (last'.ids # {} /\ last'.ids \cap idsOf(nodes) = {})
      \/ (last'.eids # {} /\ last'.eids \cap idsOf(edges) = {})
      => UNCHANGED <<nodes, edges, selectedId, selectedIds, selectedEdgeIds,
                     undoStack, redoStack>> ]_vars

(* C12: an import of text that is not JSON, or whose nodes or edges field  *)
(* is not an array, is rejected: nodes, edges, pan, scale, the selection   *)
(* and both history stacks keep their values.                              *)
C12_ImportRejected ==
  [][ /\ last'.op = "Import"
      /\ \/ ~last'.doc[1].parses
         \/ ~last'.doc[1].nodesArray
         \/ ~last'.doc[1].edgesArray
      => UNCHANGED <<nodes, edges, pan, scale, selectedId, selectedIds,
                     selectedEdgeIds, undoStack, redoStack>> ]_vars

(* a document with an edges field that is no array was offered while the   *)
(* editor held an edited document with history                             *)
C12_Witness ==
  /\ last.op = "Import" /\ last.doc # <<>>
  /\ last.doc[1].parses /\ ~last.doc[1].edgesArray
  /\ undoStack # <<>> /\ Len(nodes) > 1

(* C13: an accepted import of a full snapshot (pan and a numeric scale)    *)
(* leaves nodes, edges, pan, scale and the selection equal to the file's;  *)
(* an accepted import of any other document leaves the file's nodes and    *)
(* edges with pan (0,0), scale 1 and an empty selection; so scale is a     *)
(* number after every accepted import.                                     *)
C13_ImportOutcome ==
  [][ /\ last'.op = "Import"
      /\ last'.doc[1].parses /\ last'.doc[1].nodesArray /\ last'.doc[1].edgesArray
      => LET d == last'.doc[1]
         IN  /\ nodes' = d.nodes /\ edges' = d.edges
             /\ scale' # Null
             /\ IF d.pan # <<>> /\ d.scale # <<>>
                THEN /\ pan' = d.pan[1] /\ scale' = d.scale[1]
                     /\ selectedId' = d.selectedId
                     /\ selectedIds' = d.selectedIds
                     /\ selectedEdgeIds' = d.selectedEdgeIds
                ELSE /\ pan' = Pt(0, 0) /\ scale' = 1
                     /\ selectedId' = Null /\ selectedIds' = <<>>
                     /\ selectedEdgeIds' = {} ]_vars

(* C14: a paste of a clipboard with k nodes appends k nodes with the ids   *)
(* max+1 .. max+k (max: the largest id of the live nodes, 0 without        *)
(* nodes), each the copied node moved by (+20,+20); the nodes and edges    *)
(* from before the paste stay as they were; afterwards exactly the new     *)
(* nodes are selected and no edge is.                                      *)
C14_PasteFreshNodes ==
  [][ last'.op = "paste" /\ clipboard # <<>> =>
        LET cn == clipboard[1].nodes
            k == Len(cn)
            n == Len(nodes)
            m == maxId(nodes)
        IN  /\ Len(nodes') = n + k
            /\ \A i \in 1..n : nodes'[i] = nodes[i]
            /\ \A j \in 1..k :
                 /\ nodes'[n + j] = [cn[j] EXCEPT !.id = m + j, !.x = @ + 20, !.y = @ + 20]
                 /\ nodes'[n + j].id \notin idsOf(nodes)
            /\ Len(edges') >= Len(edges)
            /\ \A i \in 1..Len(edges) : edges'[i] = edges[i]
            /\ SeqToSet(selectedIds') = {m + j : j \in 1..k}
            /\ Len(selectedIds') = k
            /\ selectedEdgeIds' = {} ]_vars

(* two connected nodes were copied and pasted *)
C14_Witness ==
  /\ last.op = "paste" /\ clipboard # <<>>
  /\ Len(clipboard[1].nodes) = 2 /\ Len(clipboard[1].edges) = 1
  /\ Len(nodes) = 4 /\ Len(selectedIds) = 2

(* C15: a copy stores exactly the selected nodes and exactly the edges     *)
(* with both ends selected, as they are at the time of the copy; a paste   *)
(* appends one edge for each copied edge, joining the new nodes that stand *)
(* for its copied ends, so no pasted edge touches a node from before.      *)
C15_CopyPasteEdges ==
  [][ /\ last'.op = "copy" =>
           LET sel == SeqToSet(selectedIds)
           IN  /\ clipboard' # <<>>
               /\ clipboard'[1].nodes =
                    FilterSeq(nodes, {n \in SeqToSet(nodes) : n.id \in sel})
               /\ clipboard'[1].edges =
                    FilterSeq(edges, {e \in SeqToSet(edges) :
                                        e.source \in sel /\ e.target \in sel})
      /\ last'.op = "paste" /\ clipboard # <<>> =>
           LET cn == clipboard[1].nodes
               ce == clipboard[1].edges
               n == Len(nodes)
               m == Len(edges)
           IN  /\ Len(edges') = m + Len(ce)
               /\ \A k \in 1..Len(ce) :
                    /\ \E i \in 1..Len(cn) :
                         cn[i].id = ce[k].source /\ nodes'[n + i].id = edges'[m + k].source
                    /\ \E j \in 1..Len(cn) :
                         cn[j].id = ce[k].target /\ nodes'[n + j].id = edges'[m + k].target
                    /\ edges'[m + k].source \notin idsOf(nodes)
                    /\ edges'[m + k].target \notin idsOf(nodes) ]_vars

(* C16: an arrow key pressed while a node is selected (and no label is    *)
(* being renamed) moves the selection to a node lying forward of it, that  *)
(* is, one whose displacement from the selected node has a positive dot    *)
(* product with the direction of the key, whenever such a node exists, and *)
(* leaves the selection as it is when none exists.                         *)
C16_ArrowSelectsForward ==
  [][ /\ last'.op \in {"ArrowUp", "ArrowDown", "ArrowLeft", "ArrowRight"}
      /\ editingId = Null /\ selectedId # Null /\ hasId(nodes, selectedId)
      => LET dir == arrowDir(last'.op)
             cur == findById(nodes, selectedId)
             forward == {n \in SeqToSet(nodes) :
                           /\ n.id # selectedId
                           /\ (n.x - cur.x) * dir.x + (n.y - cur.y) * dir.y > 0}
         IN  IF forward # {}
             THEN /\ selectedId' \in {n.id : n \in forward}
                  /\ selectedIds' = <<selectedId'>>
                  /\ selectedEdgeIds' = {}
             ELSE /\ selectedId' = selectedId
                  /\ selectedIds' = selectedIds ]_vars

(* C17: for every node and label, the node resizeNodeForLabel returns is   *)
(* at least 120 wide and at least 64 high.                                 *)
C17_ResizeMinimumBox ==
  probe.fn = "resizeNodeForLabel" /\ probe.done
    => probe.out[1].w >= 120 /\ probe.out[1].h >= 64

(* a label of four long words was laid out and made the box grow *)
C17_Witness ==
  /\ probe.fn = "resizeNodeForLabel" /\ probe.done
  /\ Len(probe.label) > 30 /\ probe.out[1].w > 120 /\ probe.out[1].h > 64

(* C18: for every label, every font size in 12..20 and every minimum       *)
(* width, layoutLabel returns at most 3 lines.                             *)
C18_AtMostThreeLines ==
  probe.fn = "layoutLabel" /\ probe.done => Len(probe.out[1].lines) <= 3

(* C19: once a node of base size stands at a point that isPositionFree     *)
(* accepted, isPositionFree (no id excluded) reports the point occupied.   *)
C19_PlacedNodeOccupies ==
  probe.fn = "isPositionFree" /\ probe.done
    => ~isPositionFree(probe.ns, probe.es, probe.x, probe.y, Null)

(* a node was put at a free point next to two joined nodes *)
C19_Witness ==
  /\ probe.fn = "isPositionFree" /\ probe.done
  /\ Len(probe.ns) = 3 /\ probe.es # <<>>

(* the point at angle k * GOLDEN_ANGLE and the given radius from p *)
goldenSpot(p, k, radius) ==
  Pt(p.x + RoundDiv(cosGolden[k + 1] * radius, 10000),
     p.y + RoundDiv(sinGolden[k + 1] * radius, 10000))

(* the distance condition of isPositionFree between two nodes of base size *)
apart(a, b) ==
  4 * dist2(a.x, a.y, b.x, b.y) >=
    (rectRadiusTimes2(a) + Max(BASE_W, BASE_H) + 16)
      * (rectRadiusTimes2(a) + Max(BASE_W, BASE_H) + 16)

childrenApart ==
  \A i, j \in 2..Len(nodes) : i # j => apart(nodes[i], nodes[j])

addChildParent(op) ==
  IF op = "Enter" THEN selectedId
  ELSE IF op = "MenuChild" THEN contextMenu.targetNodeId
  ELSE IF op = "ShiftEnter" THEN getParentId(KeyClosure.edges, selectedId)
  ELSE IF op = "addChild" THEN 1
  ELSE Null

(* C21: addChild(parentId) on a node of the document pushes one history    *)
(* entry and appends one node with the parent's strokeColor and fillColor  *)
(* and one edge parentId -> newId in the same step; the entry it pushed    *)
(* holds the nodes and edges without the two, so one undo removes both.    *)
(* addChild on an id that is no node changes neither nodes nor edges and   *)
(* pushes nothing.                                                         *)
C21_AddChildAtomic ==
  [][ LET p == addChildParent(last'.op)
      IN  p # Null =>
            IF hasId(nodes, p)
            THEN /\ Len(undoStack') = Len(undoStack) + 1
                 /\ Len(nodes') = Len(nodes) + 1
                 /\ Len(edges') = Len(edges) + 1
                 /\ Front(nodes') = nodes
                 /\ Front(edges') = edges
                 /\ ~hasId(nodes, Last(nodes').id)
                 /\ Last(nodes').strokeColor = findById(nodes, p).strokeColor
                 /\ Last(nodes').fillColor = findById(nodes, p).fillColor
                 /\ Last(edges').source = p
                 /\ Last(edges').target = Last(nodes').id
                 /\ ~hasId(Last(undoStack').nodes, Last(nodes').id)
                 /\ ~hasId(Last(undoStack').edges, Last(edges').id)
            ELSE nodes' = nodes /\ edges' = edges /\ undoStack' = undoStack ]_vars

(* C22: addStandalone makes at most 60 placement probes when a position is *)
(* given and at most 120 when none is given, whatever the document, and    *)
(* the node is created in either case.                                     *)
C22_BoundedProbes ==
  [][ last'.op \in {"addStandaloneAt", "addStandalone"} =>
        /\ last'.probes <= (IF last'.at # <<>> THEN 60 ELSE 120)
        /\ Len(nodes') = Len(nodes) + 1
        /\ Last(nodes').id = last'.ret ]_vars

(* probe i of the spiral around an occupied position: angle i times the    *)
(* golden angle, radius 12 growing by 12 every six probes                  *)
spiralSpot(at, i) ==
  Pt(at.x + RoundDiv(cosGolden[i + 1] * (12 + 12 * (i \div 6)), 10000),
     at.y + RoundDiv(sinGolden[i + 1] * (12 + 12 * (i \div 6)), 10000))

(* C23: addStandalone(at) with at occupied, when one of the 60 points of   *)
(* the spiral around at is free, puts the new node on a position that is   *)
(* free with respect to the nodes and edges that were there before.        *)
C23_OccupiedAtAvoided ==
  [][ (/\ last'.op = "addStandaloneAt"
       /\ ~isPositionFree(nodes, edges, last'.at[1].x, last'.at[1].y, Null)
       /\ \E i \in 0..59 :
            isPositionFree(nodes, edges, spiralSpot(last'.at[1], i).x,
                           spiralSpot(last'.at[1], i).y, Null))
        => isPositionFree(nodes, edges, Last(nodes').x, Last(nodes').y, Null) ]_vars

(* the node a linking gesture ends on: findNodeAt(linking.x, linking.y,    *)
(* linking.sourceId), Null when the gesture is not over another node       *)
linkTarget ==
  IF linking.phase \in {"pending", "active"} /\ linking.sourceId # Null
  THEN findNodeAt(nodes, linking.x, linking.y, linking.sourceId)
  ELSE Null

(* C24: pointer-up of a linking gesture from S over another node T: when   *)
(* no edge joins S and T, one edge S -> T is appended, with an arrow iff   *)
(* the gesture was in phase active, and one history entry is pushed; when  *)
(* an edge joins them, the edges stay as they are; T is the sole selection *)
(* in both cases.                                                          *)
C24_LinkingCreatesEdge ==
  [][ (last'.op = "PointerUp" /\ linkTarget # Null) =>
        /\ selectedId' = linkTarget
        /\ selectedIds' = <<linkTarget>>
        /\ selectedEdgeIds' = {}
        /\ IF edgeBetween(edges, linking.sourceId, linkTarget) = {}
           THEN /\ Len(edges') = Len(edges) + 1
                /\ Front(edges') = edges
                /\ Last(edges').source = linking.sourceId
                /\ Last(edges').target = linkTarget
                /\ Last(edges').arrow = (linking.phase = "active")
                /\ Len(undoStack') = Len(undoStack) + 1
           ELSE edges' = edges ]_vars

(* C25: pointer-up of a linking gesture that is not over a node other than *)
(* the source discards the gesture: nodes, edges and both history stacks   *)
(* stay as they are, and linking is idle again with no source.             *)
C25_LinkingDiscarded ==
  [][ (/\ last'.op = "PointerUp"
       /\ linking.phase \in {"pending", "active"} /\ linking.sourceId # Null
       /\ linkTarget = Null)
        => /\ nodes' = nodes /\ edges' = edges
           /\ undoStack' = undoStack /\ redoStack' = redoStack
           /\ linking'.phase = "idle" /\ linking'.sourceId = Null ]_vars

(* C26: a pointer-cancel event clears the state of every gesture: linking  *)
(* is idle, the marquee inactive, no node drag and no group drag is in     *)
(* progress and panning is off; it pushes no history, and the nodes of a   *)
(* cancelled group drag are where they were at pointer-down.               *)
C26_CancelClearsGesture ==
  [][ last'.op = "PointerCancel" =>
        /\ linking'.phase = "idle"
        /\ ~marquee'.active
        /\ draggingNodeId' = Null
        /\ ~groupDragging'
        /\ ~panning'
        /\ ~somethingMoved'
        /\ undoStack' = undoStack /\ redoStack' = redoStack
        /\ edges' = edges
        /\ (groupDragging =>
              \A k \in 1..Len(groupStartPositions) :
                \A i \in 1..Len(nodes') :
                  nodes'[i].id = groupStartPositions[k].id
                    => /\ nodes'[i].x = groupStartPositions[k].x
                       /\ nodes'[i].y = groupStartPositions[k].y) ]_vars

(* C27: shift + pointer-down on node B while another node A is the primary *)
(* selection does not start a linking gesture: the edge found between A    *)
(* and B, in either direction, is removed when there is one, otherwise one *)
(* edge A -> B without arrow is appended; B is the sole selection          *)
(* afterwards.                                                             *)
C27_ShiftClickToggles ==
  [][ (/\ last'.op = "PointerDownNode" /\ last'.mod = "shift"
       /\ selectedId # Null /\ selectedId # last'.arg)
        => LET a == selectedId
               b == last'.arg
           IN  /\ linking' = linking
               /\ selectedId' = b /\ selectedIds' = <<b>> /\ selectedEdgeIds' = {}
               /\ IF edgeBetween(edges, a, b) # {}
                  THEN edges' = withoutIds(edges, {firstEdgeBetween(edges, a, b).id})
                  ELSE /\ Len(edges') = Len(edges) + 1
                       /\ Front(edges') = edges
                       /\ Last(edges').source = a /\ Last(edges').target = b
                       /\ ~Last(edges').arrow ]_vars

(* C27 as the handler has it: the same, for a shift + pointer-down that    *)
(* arrives while no label is being edited; while one is, the event changes *)
(* neither edges nor selection.                                            *)
C27_ShiftClickWhenNotEditing ==
  [][ (/\ last'.op = "PointerDownNode" /\ last'.mod = "shift"
       /\ selectedId # Null /\ selectedId # last'.arg)
        => LET a == selectedId
               b == last'.arg
           IN  IF editingId # Null
               THEN /\ edges' = edges /\ linking' = linking
                    /\ selectedId' = selectedId /\ selectedIds' = selectedIds
               ELSE /\ linking' = linking
                    /\ selectedId' = b /\ selectedIds' = <<b>> /\ selectedEdgeIds' = {}
                    /\ IF edgeBetween(edges, a, b) # {}
                       THEN edges' = withoutIds(edges, {firstEdgeBetween(edges, a, b).id})
                       ELSE /\ Len(edges') = Len(edges) + 1
                            /\ Front(edges') = edges
                            /\ Last(edges').source = a /\ Last(edges').target = b
                            /\ ~Last(edges').arrow ]_vars

(* C27 witness: a shift-click on a second node has just removed the edge   *)
(* from the selected node to it, or added one.                             *)
C27_Witness ==
  /\ last.op = "PointerDownNode" /\ last.mod = "shift" /\ last.kind = "op"
  /\ last.pushed = 1 /\ selectedIds = <<last.arg>> /\ linking.phase = "idle"
  /\ edges # <<>> /\ Last(edges).target = last.arg /\ ~Last(edges).arrow
  /\ editingId = Null

(* C28: no two edges join the same unordered pair of nodes, and no edge    *)
(* has its source as its target.                                           *)
C28_SimpleGraph ==
  \A i \in 1..Len(edges) :
    /\ edges[i].source # edges[i].target
    /\ edgeBetween(edges, edges[i].source, edges[i].target) = {i}

(* C29: a drag of a node or of the selected group (pointer-down on a node, *)
(* m pointer moves, pointer-up) leaves the undo stack one entry longer     *)
(* than at the pointer-down when m >= 1, whatever m is, and as long as at  *)
(* the pointer-down when m = 0; the moves themselves push nothing.         *)
C29_DragPushesOnce ==
  [][ /\ (drag.on /\ last'.op = "PointerMove") => undoStack' = undoStack
      /\ (drag.on /\ last'.op = "PointerUp")
           => Len(undoStack') = drag.undoLen + (IF drag.moves >= 1 THEN 1 ELSE 0) ]_vars

(* C30: the entry a drag pushes holds the nodes as they were before the    *)
(* drag moved any of them: Ctrl+Z right after the pointer-up of a drag     *)
(* with at least one move puts every node at the x, y it had at the        *)
(* pointer-down.                                                           *)
C30_UndoRestoresDragStart ==
  [][ (drag.done /\ drag.moves >= 1 /\ last'.op = "undo")
        => /\ idsOf(nodes') = idsOf(drag.start)
           /\ \A i \in 1..Len(nodes') :
                /\ nodes'[i].x = findById(drag.start, nodes'[i].id).x
                /\ nodes'[i].y = findById(drag.start, nodes'[i].id).y ]_vars

(* C31: an event other than undo, redo, a pointer move of a gesture in     *)
(* progress, an import or a reload that changes nodes or edges leaves the  *)
(* undo stack exactly one entry longer; a shift-click that removes an edge *)
(* is one of them.                                                         *)
C31_OneEntryPerAction ==
  [][ (/\ last'.op \notin {"undo", "redo", "PointerMove", "Import", "Reload", "Timer"}
       /\ (nodes' # nodes \/ edges' # edges))
        => Len(undoStack') = Len(undoStack) + 1 ]_vars

(* C32: for every node of the document buildRootPath returns (the loop     *)
(* ends), and the path it returns starts at a node without a parent, ends  *)
(* at the node, and each element is the parent of the next.                *)
C32_RootPathTerminates ==
  \A i \in 1..Len(nodes) :
    LET path == buildRootPath(edges, nodes[i].id)
    IN  /\ path # <<>>
        /\ getParentId(edges, path[1]) = Null
        /\ path[Len(path)] = nodes[i].id
        /\ \A k \in 1..(Len(path) - 1) : path[k] = getParentId(edges, path[k + 1])

(* C33: a Shift+Tab press on a node with a parent, the first of a series   *)
(* or one that follows a press that went up, selects the parent; a press   *)
(* on the root that a press from its child has just reached selects that   *)
(* child again, the first step back down the path.                         *)
C33_ShiftTabCycles ==
  [][ last'.op = "ShiftTab" =>
        LET up == getParentId(edges, selectedId)
            cameUp == /\ last.op = "ShiftTab" /\ prevSelectedId # Null
                      /\ getParentId(edges, prevSelectedId) = selectedId
        IN  IF up # Null /\ (last.op # "ShiftTab" \/ cameUp)
            THEN selectedId' = up /\ selectedIds' = <<up>>
            ELSE IF up = Null /\ cameUp
            THEN selectedId' = prevSelectedId /\ selectedIds' = <<prevSelectedId>>
            ELSE TRUE ]_vars

(* C34: the linking phase changes only from idle to pending, on a shift +  *)
(* pointer-down on a node while no other node is the primary selection;    *)
(* from pending to active, on a pointer move to a point farther than       *)
(* DRAG_THRESHOLD / scale from the origin of the gesture; and from pending *)
(* or active to idle, on pointer-up or pointer-leave.  sourceId is a node  *)
(* id exactly when the phase is not idle.                                  *)
C34_LinkingPhases ==
  [][ /\ (linking'.sourceId # Null) <=> (linking'.phase # "idle")
      /\ linking'.phase # linking.phase =>
           \/ /\ linking.phase = "idle" /\ linking'.phase = "pending"
              /\ last'.op = "PointerDownNode" /\ last'.mod = "shift"
              /\ selectedId \in {Null, last'.arg}
              /\ linking'.sourceId = last'.arg
           \/ /\ linking.phase = "pending" /\ linking'.phase = "active"
              /\ last'.op = "PointerMove"
              /\ dist2(linking'.x, linking'.y, linking.startX, linking.startY)
                   * scale * scale > DRAG_THRESHOLD * DRAG_THRESHOLD
           \/ /\ linking.phase \in {"pending", "active"} /\ linking'.phase = "idle"
              /\ last'.op \in {"PointerUp", "PointerLeave"} ]_vars

(* C35: an arrow key picks by tiers.  The tier used is the candidates      *)
(* within 30 degrees of the direction if there are any, else those within  *)
(* 60 degrees if there are any, else all forward candidates.  When no      *)
(* candidate lies within 60 degrees the one chosen has the smallest angle; *)
(* otherwise no candidate of the tier is nearer than the one chosen by     *)
(* more than 1e-3, and none whose distance is within 1e-3 of the chosen    *)
(* one's has a smaller angle.                                              *)
C35_ArrowTiers ==
  [][ (last'.op \in ArrowKeys /\ selectedId # Null /\ hasId(nodes, selectedId)) =>
        LET cands == SeqToSet(navCandidates(nodes, findById(nodes, selectedId),
                                            arrowDir(last'.op)))
            in30 == {p \in cands : angleWithin30(p)}
            in60 == {p \in cands : angleWithin60(p)}
            tier == IF in30 # {} THEN in30 ELSE IF in60 # {} THEN in60 ELSE cands
        IN  cands # {} =>
              \E p \in tier :
                /\ selectedId' = p.id
                /\ IF in60 = {}
                   THEN \A q \in cands : ~angleLess(q, p)
                   ELSE \A q \in tier :
                          /\ ~distLess(q.d2, p.d2)
                          /\ distClose(q.d2, p.d2) => ~angleLess(q, p) ]_vars

(* C36: resizeNodeForLabel never makes a node narrower: the width it       *)
(* returns is at least the width the node had before the call.             *)
C36_ResizeNeverNarrower ==
  (probe.fn = "resizeNodeForLabel" /\ probe.done) => probe.out[1].w >= probe.w

(* C37: every key press reads the live document: the nodes and edges that  *)
(* the key handler works on are the current nodes and edges, whatever      *)
(* changed them since the handler was registered.                          *)
C37_KeysReadLiveDocument ==
  [][ last'.op \in Keys => (KeyClosure.nodes = nodes /\ KeyClosure.edges = edges) ]_vars

(* C38: whenever the linking phase is pending or active, linking.sourceId  *)
(* is the id of a node that exists.                                        *)
C38_LinkSourceExists ==
  linking.phase \in {"pending", "active"} => hasId(nodes, linking.sourceId)

(* C39: after any sequence of editing operations (import excluded) every   *)
(* id in selectedIds is the id of an existing node and every id in         *)
(* selectedEdgeIds is the id of an existing edge.                          *)
C39_SelectionExists ==
  /\ \A i \in 1..Len(selectedIds) : hasId(nodes, selectedIds[i])
  /\ \A id \in selectedEdgeIds : hasId(edges, id)

====
